---- MODULE Spec2Model ----
(***************************************************************************)
(* Model of the batch pipeline orchestrator of src/App.tsx                 *)
(* (handleStartAutomation, the URL trigger effect, the START button) and   *)
(* of the collaborators it awaits.                                         *)
(*                                                                         *)
(* JavaScript runs every piece of code between two awaits to completion.   *)
(* A batch ("run") is therefore a process whose program counter is either  *)
(* at an await (an external call is outstanding and the environment        *)
(* decides how it returns) or at the head of one of the two loops (the     *)
(* run is in the middle of a synchronous segment and nothing else can      *)
(* happen before it has continued).  Every action performs at most one     *)
(* updateTask call, so a step of the model is one orchestrator step.       *)
(* React state (tasks, isProcessing, completedCount, ...) is taken as      *)
(* committed and rendered at once.                                         *)
(***************************************************************************)
EXTENDS Integers, Sequences, FiniteSets, TLC

\* ------------------------------------------------------------------ bounds
NumCategories == 2      \* longest prefix of the configured categories in use
MaxLinks      == 2      \* distinct article links the news service knows
MaxFetch      == 1      \* most articles one fetch returns
MaxRuns       == 2      \* slots for batches that are in progress at once
MaxSubFetchLen == 2     \* most articles of one sub-fetch result that is merged
MaxLogAtStart == 13     \* longest followed log at which a batch is started
MaxBatches    == 1      \* most batches whose mirrored sends are followed
MaxFailedLogins == 1    \* most failed logins a log that is followed records
MaxMerged     == 11     \* most articles of a long sub-fetch result
MaxTextLen    == 5      \* most characters of a text that is wrapped
MaxBudget     == 3      \* widest budget a text is wrapped to
MaxWords      == 8      \* most words of a headline that is sized
MaxSide       == 12     \* longest side of a source image
MaxLineLen    == 4      \* most characters of a headline that is highlighted
MaxWordsLine  == 3      \* most characters after HIGHLIGHT_WORDS: in a response

\* --------------------------------------------------------------- constants
APP_PASSWORD == "Dhakadispatch11@"

API_FETCH_DELAY_MS == 0

\* uniqueArticles.slice(0, 10), App.tsx:93
TrendingLimit == 10

ConfiguredCategories ==
    << [name |-> "Trending",           apiValue |-> "top"],
       [name |-> "Politics",           apiValue |-> "politics"],
       [name |-> "Crime",              apiValue |-> "crime"],
       [name |-> "Entertainment",      apiValue |-> "entertainment"],
       [name |-> "Business/Corporate", apiValue |-> "business"] >>

\* the category lists the program is run with: the aggregate category and
\* at least one category for it to merge
CategoryConfigs ==
    { SubSeq(ConfiguredCategories, 1, n) : n \in 2..NumCategories }

\* TaskStatus (types.ts)
PENDING          == "PENDING"
GATHERING        == "GATHERING"
GATHERED         == "GATHERED"
PROCESSING       == "PROCESSING"
GENERATING_IMAGE == "GENERATING_IMAGE"
COMPOSING        == "COMPOSING"
UPLOADING        == "UPLOADING"
SENDING_WEBHOOK  == "SENDING_WEBHOOK"
DONE             == "DONE"
ERROR            == "ERROR"

TaskStatus ==
    { PENDING, GATHERING, GATHERED, PROCESSING, GENERATING_IMAGE,
      COMPOSING, UPLOADING, SENDING_WEBHOOK, DONE, ERROR }

\* ------------------------------------------------- values of the environment
Links == 1..MaxLinks

Dates == {1}

\* NewsDataArticle, reduced to the fields the orchestrator reads
Articles == [link : Links, pubDate : Dates]

RECURSIVE SeqsUpTo(_, _)
SeqsUpTo(S, n) ==
    IF n = 0 THEN { <<>> }
    ELSE LET shorter == SeqsUpTo(S, n - 1)
         IN  shorter \cup { Append(s, x) : s \in shorter, x \in S }

\* what one call of fetchLatestBangladeshiNews can resolve with
FetchResults == SeqsUpTo(Articles, MaxFetch)

\* NewsAnalysis as the analysis service delivers it
Analyses ==
    { [headline |-> "headline-1", caption |-> "caption-1",
       sourceName |-> "source-1", imagePrompt |-> "prompt-1"] }

\* secure_url values the upload can resolve with
UploadUrls == { "https://res.cloudinary.com/1.png" }

\* A message is the sequence of the pieces it is put together from (the
\* pieces of a template literal, in order).
\* messages of the failures the collaborators raise
FetchFailMsg    == << "News API request failed" >>
AnalyzePrefix   == "Failed to analyze the news article. "
AnalyzeApiMsg   == << AnalyzePrefix, "API error" >>
NoIdMsg         == << AnalyzePrefix, "AI response did not include a valid CHOSEN_ID." >>
InvalidIdMsg    == << AnalyzePrefix, "AI chose an invalid ID" >>
LoadFailMsg     == << "Failed to load image" >>
CriticalMsg     == << "CRITICAL: The fallback image itself could not be loaded." >>
GenerateFailMsg == << "Failed to generate AI image." >>
ComposeFailMsg  == << "Could not get canvas context" >>
UploadFailMsg   == << "Cloudinary upload failed" >>
Webhook401Msg   == << "Webhook request failed (401 Unauthorized)." >>
WebhookFailMsg(status, responseText) ==
    << "Webhook request failed with status ", ToString(status), ": ", responseText >>
NoUnusedMsg     == << "No new, unused articles found." >>
IrrelevantMsg   == << "AI deemed all articles irrelevant." >>
NoTrendingMsg   == << "Could not construct \"Trending\" category." >>
UnknownErrorMsg == << "An unknown error occurred." >>

\* messages of the log entries that mark a batch and a login
StartedMsg      == << "Automation process started by trigger." >>
Phase1Msg       == << "Starting Phase 1: Article Gathering." >>
FinishedMsg     == << "Automation process finished." >>
AcceptedMsg     == << "Password accepted. Access granted." >>
FailedLoginMsg  == << "Failed login attempt." >>

\* ------------------------------------------------------------------- state
VARIABLES
    NEWS_CATEGORIES,      \* constants.ts:25-31: the configured categories
    urlParams,            \* window.location.search: [action, password]
    isAuthenticated,      \* useState, App.tsx:23
    tasks,                \* useState, App.tsx:24: sequence of BatchTask
    isProcessing,         \* useState, App.tsx:25: the running flag
    completedCount,       \* useState, App.tsx:26
    logs,                 \* useState, App.tsx:27: sequence of LogEntry
    hasTriggeredFromUrl,  \* useState, App.tsx:28
    isProcessingRef,      \* useRef,   App.tsx:30
    password,             \* useState, PasswordScreen.tsx:11: the form field
    effectPending,        \* the URL effect is due to run (mount, dependency change)
    startTimer,           \* setTimeout(handleStartAutomation, 0) is outstanding
    runs,                 \* the invocations of handleStartAutomation in progress
    mirror,               \* sends of sendStatusUpdate that have not settled
    follows,              \* what the specification follows: the log, the sends, the calls
    arg,                  \* argument of a function that is checked on its own
    ret                   \* << its result >>, once it has been applied

vars == << NEWS_CATEGORIES, urlParams, isAuthenticated, tasks, isProcessing, completedCount,
           logs, hasTriggeredFromUrl, isProcessingRef, password, effectPending,
           startTimer, runs, mirror, follows, arg, ret >>

RunIds == 1..MaxRuns

Passwords == { APP_PASSWORD, "wrong" }

\* the query strings a page can be loaded with
UrlParamValues ==
    { [action |-> "none",  password |-> "none"] }
    \cup [action : {"start"}, password : Passwords \cup {"none"}]

\* the locals of one invocation of handleStartAutomation
IdleRun ==
    [ pc         |-> "idle",
      i          |-> 0,       \* position of the Phase 1 loop in NEWS_CATEGORIES
      j          |-> 0,       \* position of the Phase 2 loop in collectedData
      usedArticleLinks |-> {},
      collectedData    |-> <<>>,
      pending    |-> {},      \* sub-fetches of Promise.all not yet settled
      fetched    |-> <<>>,    \* by sub-fetch: << its result >> once it has resolved
                              \* (kept until the analysis call has returned)
      unusedArticles |-> <<>>,  \* argument of the outstanding analysis call
      imageUrl   |-> <<>>,    \* result of the upload, once it has returned
      payload    |-> <<>> ]   \* argument of the outstanding webhook dispatch

\* program counters at which the run is inside a synchronous segment
SyncPcs == { "p1_next", "p2_next" }

Busy == \E r \in RunIds : runs[r].pc \in SyncPcs

Active(r) == runs[r].pc # "idle"

N == Len(NEWS_CATEGORIES)

\* ------------------------------------------------------------ pure helpers
Min(a, b) == IF a <= b THEN a ELSE b

\* { ...task, ...updates }
MergeTask(task, updates) ==
    [ f \in DOMAIN task |-> IF f \in DOMAIN updates THEN updates[f] ELSE task[f] ]

\* updateTask, App.tsx:58-62
updateTask(prevTasks, taskId, updates) ==
    [ k \in 1..Len(prevTasks) |->
        IF prevTasks[k].id = taskId THEN MergeTask(prevTasks[k], updates)
        ELSE prevTasks[k] ]

\* variant: a task of the previous batch that has failed is kept
initialTasksKeepFailed ==
    [ k \in 1..N |->
        IF k \in DOMAIN tasks /\ tasks[k].status = ERROR
        THEN tasks[k]
        ELSE [ id |-> NEWS_CATEGORIES[k].apiValue,
               categoryName |-> NEWS_CATEGORIES[k].name,
               status |-> PENDING,
               result |-> <<>>,
               error  |-> <<>> ] ]

\* initialTasks, App.tsx:49-53
initialTasks ==
    [ k \in 1..N |->
        [ id |-> NEWS_CATEGORIES[k].apiValue,
          categoryName |-> NEWS_CATEGORIES[k].name,
          status |-> PENDING,
          result |-> <<>>,
          error  |-> <<>> ] ]

\* otherCategoryValues, App.tsx:78-80
otherCategoryValues ==
    LET others == SelectSeq(NEWS_CATEGORIES, LAMBDA c : c.apiValue # "top")
    IN  [ k \in 1..Len(others) |-> others[k].apiValue ]

\* categoryName, App.tsx:134
categoryNameOf(taskId) ==
    IF \E k \in 1..N : NEWS_CATEGORIES[k].apiValue = taskId
    THEN NEWS_CATEGORIES[CHOOSE k \in 1..N :
                            /\ NEWS_CATEGORIES[k].apiValue = taskId
                            /\ \A m \in 1..(k - 1) :
                                  NEWS_CATEGORIES[m].apiValue # taskId].name
    ELSE taskId

RECURSIVE Flat(_)
Flat(lists) ==
    IF lists = <<>> THEN <<>> ELSE Head(lists) \o Flat(Tail(lists))

\* variant: the first article seen with a link is kept
uniqueArticlesFirstWins(articles) ==
    LET isFirst(k) == \A m \in 1..(k - 1) : articles[m].link # articles[k].link
    IN  SelectSeq([k \in 1..Len(articles) |->
                      IF isFirst(k) THEN articles[k] ELSE << >>],
                  LAMBDA a : a # << >>)

\* Array.from(new Map(articles.map(a => [a.link, a])).values()), App.tsx:86:
\* one entry per link, at the position of the link's first occurrence,
\* holding the last article seen with that link
uniqueArticles(articles) ==
    LET isFirst(k) == \A m \in 1..(k - 1) : articles[m].link # articles[k].link
        lastOf(l)  == CHOOSE k \in 1..Len(articles) :
                         /\ articles[k].link = l
                         /\ \A m \in (k + 1)..Len(articles) : articles[m].link # l
        firsts     == SelectSeq([k \in 1..Len(articles) |-> k], isFirst)
    IN  [ n \in 1..Len(firsts) |-> articles[lastOf(articles[firsts[n]].link)] ]

\* insertion of x behind every entry that is not older than x
RECURSIVE InsertByDate(_, _)
InsertByDate(x, sorted) ==
    IF sorted = <<>> THEN << x >>
    ELSE IF Head(sorted).pubDate >= x.pubDate
         THEN << Head(sorted) >> \o InsertByDate(x, Tail(sorted))
         ELSE << x >> \o sorted

\* uniqueArticles.sort(by pubDate, newest first), App.tsx:88-91 (stable)
RECURSIVE SortByDateDesc(_)
SortByDateDesc(articles) ==
    IF articles = <<>> THEN <<>>
    ELSE InsertByDate(articles[Len(articles)],
                      SortByDateDesc(SubSeq(articles, 1, Len(articles) - 1)))

\* variant: the list is cut before it is sorted
TrendingArticlesCutFirst(lists) ==
    LET merged == uniqueArticles(Flat(lists))
    IN  SortByDateDesc(SubSeq(merged, 1, Min(TrendingLimit, Len(merged))))

\* the candidate list of the aggregate category, App.tsx:82-93
TrendingArticles(lists) ==
    LET sorted == SortByDateDesc(uniqueArticles(Flat(lists)))
    IN  SubSeq(sorted, 1, Min(TrendingLimit, Len(sorted)))

\* variant: the filter by the used links is missing
allArticlesUnfiltered(allArticles, usedArticleLinks) == allArticles

\* allArticles.filter(a => !usedArticleLinks.has(a.link)), App.tsx:102
unusedArticlesOf(allArticles, usedArticleLinks) ==
    SelectSeq(allArticles, LAMBDA a : a.link \notin usedArticleLinks)

\* new Error(message)
NewError(message) == [isError |-> TRUE, message |-> message]

\* a rejection value that is not an Error object
NotAnError == [isError |-> FALSE, message |-> << >>]

\* variant: the message of the failure is not looked at
errorMessageAlwaysUnknown(err) == UnknownErrorMsg

\* errorMessage, App.tsx:123 and 190
errorMessage(err) ==
    IF err.isError THEN err.message ELSE UnknownErrorMsg

\* what fetchLatestBangladeshiNews rejects with, news.ts:53-57: the error
\* it raised for a failed request, or the value the platform's fetch
\* rejected with, passed on as it is
FetchFailures == { NewError(FetchFailMsg), NotAnError }

\* what uploadToCloudinary rejects with (part_003:34-38), passed on as it is
UploadFailures == { NewError(UploadFailMsg), NotAnError }

\* what the analysis service can answer for a list of articles:
\* the word IRRELEVANT, a failure of the API call, a text without a
\* CHOSEN_ID line, or a CHOSEN_ID with the analysis fields (the id is
\* whatever number the service writes)
AiResponses(articles) ==
    { [kind |-> "IRRELEVANT"], [kind |-> "api_error"], [kind |-> "no_id"] }
    \cup [kind : {"chosen"}, id : 0..(Len(articles) + 1), analysis : Analyses]

\* variant: an id outside the list is answered like IRRELEVANT
findAndAnalyzeNullForInvalidId(articles, response) ==
    IF response.kind = "api_error"
    THEN [kind |-> "throw", error |-> NewError(AnalyzeApiMsg)]
    ELSE IF response.kind = "IRRELEVANT"
    THEN [kind |-> "null"]
    ELSE IF response.kind = "no_id"
    THEN [kind |-> "throw", error |-> NewError(NoIdMsg)]
    ELSE IF response.id - 1 \notin 0..(Len(articles) - 1)
    THEN [kind |-> "null"]
    ELSE [kind |-> "ok", analysis |-> response.analysis,
          article |-> articles[response.id]]

\* findAndAnalyzeBestArticleFromList, services/gemini.ts (part_002:159-256)
findAndAnalyzeBestArticleFromList(articles, response) ==
    IF response.kind = "api_error"
    THEN [kind |-> "throw", error |-> NewError(AnalyzeApiMsg)]
    ELSE IF response.kind = "IRRELEVANT"
    THEN [kind |-> "null"]
    ELSE IF response.kind = "no_id"
    THEN [kind |-> "throw", error |-> NewError(NoIdMsg)]
    ELSE IF response.id - 1 \notin 0..(Len(articles) - 1)
    THEN [kind |-> "throw", error |-> NewError(InvalidIdMsg)]
    ELSE [kind |-> "ok", analysis |-> response.analysis,
          article |-> articles[response.id]]

\* the responses of the workflow webhook: status and body text
WebhookResponses == [status : {200, 204, 401, 500}, text : {"Accepted"}]

\* variant: only the 401 response is a failure
sendToMakeWebhookOnly401(response) ==
    IF response.status = 401
    THEN [kind |-> "throw", error |-> NewError(Webhook401Msg)]
    ELSE [kind |-> "resolve"]

\* sendToMakeWebhook, services/webhook.ts (part_002:9-38)
sendToMakeWebhook(response) ==
    IF response.status \in 200..299
    THEN [kind |-> "resolve"]
    ELSE IF response.status = 401
    THEN [kind |-> "throw", error |-> NewError(Webhook401Msg)]
    ELSE [kind |-> "throw",
          error |-> NewError(WebhookFailMsg(response.status, response.text))]

\* ---------------------------------------------------------- the status log
\* LogEntry without the timestamp; category and details are optional
Entry(level, message, category, details) ==
    [level |-> level, message |-> message, category |-> category,
     details |-> details]

\* the log and the outstanding mirrored sends, as the step has left them
StatusLog == [logs |-> logs, mirror |-> mirror]

\* variant: the new entry replaces the log
logReplaces(s, data) ==
    [ logs   |-> IF "logs" \in follows THEN << data >> ELSE s.logs,
      mirror |-> IF "mirror" \in follows THEN s.mirror + 1 ELSE s.mirror ]

\* log, App.tsx:35-42: setLogs(prevLogs => [...prevLogs, newLogEntry]),
\* then sendStatusUpdate(data), which starts a send and returns
\* (services/webhook.ts, part_002:47-70).  A specification leaves the log
\* or the sends out of its state by not following them.
log(s, data) ==
    [ logs   |-> IF "logs" \in follows THEN Append(s.logs, data) ELSE s.logs,
      mirror |-> IF "mirror" \in follows THEN s.mirror + 1 ELSE s.mirror ]

\* the step leaves the log and the sends as s
Logged(s) ==
    /\ logs' = s.logs
    /\ mirror' = s.mirror

\* the entries of the log with the message
EntriesWith(message) == { n \in 1..Len(logs) : logs[n].message = message }

\* a log that is followed is kept finite: it records at most `most`
\* entries with the message
LogHasRoomFor(message, most) ==
    "logs" \in follows => Cardinality(EntriesWith(message)) < most

\* a batch is started while the log that is followed is short, and while
\* the sends that are followed are those of few batches
LogHasRoomForBatch ==
    /\ "logs" \in follows => Len(logs) <= MaxLogAtStart
    /\ "mirror" \in follows => LogHasRoomFor(StartedMsg, MaxBatches)

\* ----------------------------------------------------------- batch start
FreeRun == CHOOSE r \in RunIds :
              /\ ~Active(r)
              /\ \A q \in RunIds : q < r => Active(q)

\* handleStartAutomation up to the head of the Phase 1 loop, App.tsx:45-66
StartRun ==
    /\ \E r \in RunIds : ~Active(r)
    /\ LogHasRoomForBatch
    /\ isProcessing' = TRUE
    /\ isProcessingRef' = TRUE
    /\ completedCount' = 0
    /\ tasks' = initialTasks
    /\ runs' = [runs EXCEPT ![FreeRun] = [IdleRun EXCEPT !.pc = "p1_next", !.i = 1]]
    /\ Logged(log(log(StatusLog, Entry("INFO", StartedMsg, <<>>, <<>>)),
                  Entry("INFO", Phase1Msg, <<>>, <<>>)))

\* variant: any password parameter is accepted
UrlStartAcceptedAnyPassword == urlParams.action = "start"

\* the start request in the URL is one the URL effect accepts, App.tsx:204,
\* 215-225
UrlStartAccepted ==
    /\ urlParams.action = "start"
    /\ (APP_PASSWORD # "" => urlParams.password = APP_PASSWORD)

\* variant: the effect does not record that it has fired
UrlEffectNotRecorded ==
    /\ effectPending
    /\ ~Busy
    /\ IF /\ UrlStartAccepted
          /\ ~hasTriggeredFromUrl
          /\ ~isProcessingRef
       THEN /\ isAuthenticated' = TRUE
            /\ startTimer' = TRUE
            /\ effectPending' = FALSE
            /\ password' = ""
            /\ UNCHANGED hasTriggeredFromUrl
       ELSE /\ effectPending' = FALSE
            /\ UNCHANGED << hasTriggeredFromUrl, isAuthenticated, startTimer,
                            password >>
    /\ UNCHANGED << arg, ret, follows, logs, mirror, NEWS_CATEGORIES, urlParams,
                    tasks, isProcessing, completedCount, isProcessingRef, runs >>

\* the URL effect, App.tsx:201-228
UrlEffect ==
    /\ effectPending
    /\ ~Busy
    /\ IF /\ UrlStartAccepted
          /\ ~hasTriggeredFromUrl
          /\ ~isProcessingRef
       THEN \* handleAuthAndStart; the changed dependency re-runs the effect,
            \* the password form is no longer rendered
            /\ hasTriggeredFromUrl' = TRUE
            /\ isAuthenticated' = TRUE
            /\ startTimer' = TRUE
            /\ effectPending' = TRUE
            /\ password' = ""
       ELSE /\ effectPending' = FALSE
            /\ UNCHANGED << hasTriggeredFromUrl, isAuthenticated, startTimer,
                            password >>
    /\ UNCHANGED << arg, ret, follows, logs, mirror, NEWS_CATEGORIES, urlParams,
                    tasks, isProcessing, completedCount, isProcessingRef, runs >>

\* the callback of setTimeout(handleStartAutomation, 0), App.tsx:211
TimerFire ==
    /\ startTimer
    /\ ~effectPending
    /\ ~Busy
    /\ startTimer' = FALSE
    /\ StartRun
    /\ UNCHANGED << arg, ret, follows, NEWS_CATEGORIES, urlParams, isAuthenticated,
                    hasTriggeredFromUrl, effectPending, password >>

\* onChange of the password field, PasswordScreen.tsx:36; the form is
\* rendered while isAuthenticated is false, App.tsx:231-233
SetPassword(value) ==
    /\ ~isAuthenticated
    /\ ~effectPending
    /\ ~Busy
    /\ value # password
    /\ password' = value
    /\ UNCHANGED << arg, ret, follows, logs, mirror, NEWS_CATEGORIES, urlParams,
                    isAuthenticated, tasks, isProcessing, completedCount,
                    hasTriggeredFromUrl, isProcessingRef, effectPending,
                    startTimer, runs >>

\* variant: every submitted password is accepted
passwordAcceptedAlways == TRUE

\* password === APP_PASSWORD, PasswordScreen.tsx:17
passwordAccepted == password = APP_PASSWORD

\* handleSubmit of the password form, PasswordScreen.tsx:15-24
PasswordSubmit ==
    /\ ~isAuthenticated
    /\ ~effectPending
    /\ ~Busy
    /\ IF passwordAccepted
       THEN /\ Logged(log(StatusLog, Entry("SUCCESS", AcceptedMsg, <<>>, <<>>)))
            /\ isAuthenticated' = TRUE
            /\ password' = ""
       ELSE /\ LogHasRoomFor(FailedLoginMsg, MaxFailedLogins)
            /\ Logged(log(StatusLog, Entry("ERROR", FailedLoginMsg, <<>>, <<>>)))
            /\ UNCHANGED << isAuthenticated, password >>
    /\ UNCHANGED << arg, ret, follows, NEWS_CATEGORIES, urlParams, tasks,
                    isProcessing, completedCount, hasTriggeredFromUrl,
                    isProcessingRef, effectPending, startTimer, runs >>

\* a click on the START AUTOMATION button, App.tsx:251-257:
\* rendered once authenticated, disabled while isProcessing
ClickStart ==
    /\ isAuthenticated
    /\ ~isProcessing
    /\ ~effectPending
    /\ ~Busy
    /\ StartRun
    /\ UNCHANGED << arg, ret, follows, NEWS_CATEGORIES, urlParams, isAuthenticated,
                    hasTriggeredFromUrl, effectPending, startTimer, password >>

\* a mirrored send settles, services/webhook.ts (part_002:58-69): nothing is
\* done when it succeeds, and its failure is written to the console
MirrorSettle(outcome) ==
    /\ mirror > 0
    /\ ~Busy
    /\ mirror' = mirror - 1
    /\ UNCHANGED << arg, ret, follows, logs, NEWS_CATEGORIES, urlParams,
                    isAuthenticated, tasks, isProcessing, completedCount,
                    hasTriggeredFromUrl, isProcessingRef, password,
                    effectPending, startTimer, runs >>

\* ----------------------------------------------------------------- Phase 1
uiVars == << arg, ret, follows, NEWS_CATEGORIES, urlParams, isAuthenticated,
             hasTriggeredFromUrl, password, effectPending, startTimer >>

\* uiVars without the function call that is followed
pageVars == << follows, NEWS_CATEGORIES, urlParams, isAuthenticated,
               hasTriggeredFromUrl, password, effectPending, startTimer >>

flagVars == << isProcessing, isProcessingRef, completedCount >>

\* the call of a collaborator has returned: a specification that follows
\* the calls keeps the arguments and the outcome of the last one
Called(call, outcome) ==
    IF "calls" \in follows
    THEN arg' = call /\ ret' = << outcome >>
    ELSE UNCHANGED << arg, ret >>

logVars == << logs, mirror >>

\* the category the Phase 1 loop of run r is at
CurrentCategory(r) == NEWS_CATEGORIES[runs[r].i]

\* the bundle the Phase 2 loop of run r is at
CurrentBundle(r) == runs[r].collectedData[runs[r].j]

\* an entry of the category the Phase 1 loop of run r is at
GatherEntry(r, level, message, details) ==
    Entry(level, message, << CurrentCategory(r).name >>, details)

\* an entry of the bundle the Phase 2 loop of run r is at
ProcessEntry(r, level, message, details) ==
    Entry(level, message, << categoryNameOf(CurrentBundle(r).taskId) >>, details)

\* variant: a failed category ends the Phase 1 loop
AfterGatherCatchEndsPhase(run) ==
    [run EXCEPT !.pc = "p1_next", !.i = Len(NEWS_CATEGORIES) + 1,
                !.unusedArticles = <<>>]

\* the locals after the catch block of Phase 1: on to the next category
AfterGatherCatch(run) ==
    [run EXCEPT !.pc = "p1_next", !.i = @ + 1, !.unusedArticles = <<>>]

\* catch block of Phase 1, App.tsx:122-127; s is the status log as the try
\* block has left it
GatherCatch(r, run, err, s) ==
    /\ tasks' = updateTask(tasks, CurrentCategory(r).apiValue,
                           [status |-> ERROR, error |-> << errorMessage(err) >>])
    /\ runs' = [runs EXCEPT ![r] = AfterGatherCatch(run)]
    /\ Logged(log(s, GatherEntry(r, "ERROR",
                                 << "Gathering failed: " >> \o errorMessage(err),
                                 <<>>)))

\* loop head of Phase 1 with a category left, App.tsx:68-84, 99
GatherNext(r) ==
    /\ runs[r].pc = "p1_next"
    /\ runs[r].i <= N
    /\ tasks' = updateTask(tasks, CurrentCategory(r).apiValue,
                           [status |-> GATHERING])
    /\ LET started == log(StatusLog,
                          GatherEntry(r, "INFO",
                                      << "Gathering for: ", CurrentCategory(r).name >>,
                                      <<>>))
       IN  IF CurrentCategory(r).apiValue = "top"
           THEN /\ runs' = [runs EXCEPT ![r] =
                              [@ EXCEPT !.pc = "fetch_all",
                                        !.pending = 1..Len(otherCategoryValues),
                                        !.fetched = [k \in 1..Len(otherCategoryValues) |-> <<>>]]]
                /\ Logged(log(started,
                              GatherEntry(r, "INFO",
                                          << "Creating synthetic \"Trending\" category." >>,
                                          <<>>)))
           ELSE /\ runs' = [runs EXCEPT ![r] =
                              [@ EXCEPT !.pc = "fetch", !.fetched = <<>>]]
                /\ Logged(started)
    /\ UNCHANGED << uiVars, flagVars >>

\* variant: the analysis is called even when no unused article is left
AfterFetchAlwaysAnalyzes(r, run, allArticles, s) ==
    LET unused == unusedArticlesOf(allArticles, run.usedArticleLinks)
    IN  /\ runs' = [runs EXCEPT ![r] =
                      [run EXCEPT !.pc = "analyze", !.unusedArticles = unused]]
        /\ UNCHANGED tasks
        /\ Logged(log(s, GatherEntry(r, "INFO",
                                     << "Found ", ToString(Len(unused)),
                                        " new articles. Analyzing..." >>,
                                     <<>>)))

\* App.tsx:102-107: filter by the used links, fail or call the analysis
AfterFetch(r, run, allArticles, s) ==
    LET unused == unusedArticlesOf(allArticles, run.usedArticleLinks)
    IN  IF Len(unused) = 0
        THEN GatherCatch(r, run, NewError(NoUnusedMsg), s)
        ELSE /\ runs' = [runs EXCEPT ![r] =
                           [run EXCEPT !.pc = "analyze", !.unusedArticles = unused]]
             /\ UNCHANGED tasks
             /\ Logged(log(s, GatherEntry(r, "INFO",
                                          << "Found ", ToString(Len(unused)),
                                             " new articles. Analyzing..." >>,
                                          <<>>)))

\* the value of the awaited Promise.all, App.tsx:82-84: the results of the
\* sub-fetches, which have all resolved
resolvedValues(fetched) == [ k \in 1..Len(fetched) |-> fetched[k][1] ]

\* fetchLatestBangladeshiNews(category.apiValue) resolves, App.tsx:99
FetchReturn(r, articles) ==
    /\ runs[r].pc = "fetch"
    /\ ~Busy
    /\ AfterFetch(r, runs[r], articles, StatusLog)
    /\ UNCHANGED << uiVars, flagVars >>

\* fetchLatestBangladeshiNews(category.apiValue) rejects, news.ts:53-57
FetchFail(r, err) ==
    /\ runs[r].pc = "fetch"
    /\ ~Busy
    /\ GatherCatch(r, runs[r], err, StatusLog)
    /\ UNCHANGED << uiVars, flagVars >>

\* one sub-fetch of the aggregate category resolves; Promise.all resolves
\* with the last of them, App.tsx:82-96
SubFetchReturn(r, k, articles) ==
    /\ runs[r].pc = "fetch_all"
    /\ k \in runs[r].pending
    /\ ~Busy
    /\ LET run == [runs[r] EXCEPT !.pending = @ \ {k}, !.fetched[k] = << articles >>]
       IN  IF run.pending # {}
           THEN /\ runs' = [runs EXCEPT ![r] = run]
                /\ UNCHANGED << tasks, logVars >>
           ELSE LET allArticles == TrendingArticles(resolvedValues(run.fetched))
                IN  IF Len(allArticles) = 0
                    THEN GatherCatch(r, run, NewError(NoTrendingMsg), StatusLog)
                    ELSE AfterFetch(r, run, allArticles,
                                    log(StatusLog,
                                        GatherEntry(r, "INFO",
                                                    << "Found ", ToString(Len(allArticles)),
                                                       " articles for \"Trending\"." >>,
                                                    <<>>)))
    /\ UNCHANGED << uiVars, flagVars >>

\* one sub-fetch of the aggregate category rejects: Promise.all rejects at
\* once and the catch block runs; the sub-fetches still outstanding stay in
\* pending, and nothing listens to them any more, App.tsx:82-84, 122-127
SubFetchFail(r, k, err) ==
    /\ runs[r].pc = "fetch_all"
    /\ k \in runs[r].pending
    /\ ~Busy
    /\ GatherCatch(r, [runs[r] EXCEPT !.pending = @ \ {k}], err, StatusLog)
    /\ UNCHANGED << uiVars, flagVars >>

\* variant: the bundle is recorded under the id of the first category
AfterGatheredFirstTask(run, result) ==
    [run EXCEPT !.pc = "p1_next", !.i = @ + 1, !.unusedArticles = <<>>,
                !.fetched = <<>>,
                !.usedArticleLinks = @ \cup { result.article.link },
                !.collectedData =
                    Append(@, [taskId   |-> NEWS_CATEGORIES[1].apiValue,
                               analysis |-> result.analysis,
                               article  |-> result.article])]

\* the locals after a successful gather, App.tsx:111-120 (no delay: the
\* configured API_FETCH_DELAY_MS is 0)
AfterGathered(run, result) ==
    [run EXCEPT !.pc = "p1_next", !.i = @ + 1, !.unusedArticles = <<>>,
                !.fetched = <<>>,
                !.usedArticleLinks = @ \cup { result.article.link },
                !.collectedData =
                    Append(@, [taskId   |-> NEWS_CATEGORIES[run.i].apiValue,
                               analysis |-> result.analysis,
                               article  |-> result.article])]

\* findAndAnalyzeBestArticleFromList settles, App.tsx:107-116
AnalyzeReturn(r, response) ==
    /\ runs[r].pc = "analyze"
    /\ ~Busy
    /\ LET result == findAndAnalyzeBestArticleFromList(runs[r].unusedArticles, response)
       IN  /\ IF result.kind = "throw"
              THEN GatherCatch(r, [runs[r] EXCEPT !.fetched = <<>>], result.error,
                               StatusLog)
              ELSE IF result.kind = "null"
              THEN GatherCatch(r, [runs[r] EXCEPT !.fetched = <<>>],
                               NewError(IrrelevantMsg), StatusLog)
              ELSE /\ tasks' = updateTask(tasks, CurrentCategory(r).apiValue,
                                          [status |-> GATHERED])
                   /\ runs' = [runs EXCEPT ![r] = AfterGathered(runs[r], result)]
                   /\ Logged(log(StatusLog,
                                 GatherEntry(r, "SUCCESS",
                                             << "Article gathered and analyzed." >>,
                                             [headline |-> result.analysis.headline,
                                              source   |-> result.article.link])))
           /\ Called([fn |-> "findAndAnalyzeBestArticleFromList",
                      articles |-> runs[r].unusedArticles,
                      response |-> response],
                     result)
    /\ UNCHANGED << pageVars, flagVars >>

\* the Phase 1 loop is exhausted, App.tsx:128-132
GatherEnd(r) ==
    /\ runs[r].pc = "p1_next"
    /\ runs[r].i > N
    /\ runs' = [runs EXCEPT ![r] = [@ EXCEPT !.pc = "p2_next", !.j = 1]]
    /\ Logged(log(StatusLog,
                  Entry("INFO",
                        << "Gathering finished. Processing ",
                           ToString(Len(runs[r].collectedData)), " articles." >>,
                        <<>>, <<>>)))
    /\ UNCHANGED << uiVars, flagVars, tasks >>

\* ----------------------------------------------------------------- Phase 2
\* variant: the failure of a bundle leaves handleStartAutomation (rethrown)
AfterProcessCatchRethrows(run) ==
    [run EXCEPT !.pc = "rejected", !.imageUrl = <<>>]

\* variant: the failed bundle is tried again
AfterProcessCatchRetries(run) ==
    [run EXCEPT !.pc = "p2_next", !.imageUrl = <<>>, !.payload = <<>>]

\* the locals after the catch block of Phase 2: on to the next bundle
AfterProcessCatch(run) ==
    [run EXCEPT !.pc = "p2_next", !.j = @ + 1, !.imageUrl = <<>>,
                !.payload = <<>>]

\* catch block of Phase 2, App.tsx:189-194
Caught(r, err) ==
    /\ tasks' = updateTask(tasks, CurrentBundle(r).taskId,
                           [status |-> ERROR, error |-> << errorMessage(err) >>])
    /\ runs' = [runs EXCEPT ![r] = AfterProcessCatch(runs[r])]
    /\ Logged(log(StatusLog,
                  ProcessEntry(r, "ERROR",
                               << "Processing failed: " >> \o errorMessage(err),
                               <<>>)))
    /\ UNCHANGED << pageVars, flagVars >>

\* the catch block after a call that is not followed
ProcessCatch(r, err) ==
    /\ Caught(r, err)
    /\ UNCHANGED << arg, ret >>

\* a step of Phase 2 that only moves the bundle's task on; s is the status
\* log as the step leaves it
ProcessAdvance(r, status, pc, s) ==
    /\ tasks' = updateTask(tasks, CurrentBundle(r).taskId, [status |-> status])
    /\ runs' = [runs EXCEPT ![r].pc = pc]
    /\ Logged(s)
    /\ UNCHANGED << uiVars, flagVars >>

\* loop head of Phase 2 with a bundle left, App.tsx:132-141
ProcessNext(r) ==
    /\ runs[r].pc = "p2_next"
    /\ runs[r].j <= Len(runs[r].collectedData)
    /\ ProcessAdvance(r, PROCESSING, "load_image", StatusLog)

\* loadImage(article.image_url) resolves, App.tsx:141-142, 150-152
LoadImageOk(r) ==
    /\ runs[r].pc = "load_image"
    /\ ~Busy
    /\ ProcessAdvance(r, COMPOSING, "compose",
                      log(log(StatusLog,
                              ProcessEntry(r, "INFO", << "Article image loaded." >>, <<>>)),
                          ProcessEntry(r, "INFO", << "Composing final image." >>, <<>>)))

\* the data URL generateImageFromPrompt resolves with, imageGenerator.ts:53-55;
\* a source is held as its first four characters and the rest
generatedImageBase64 == [prefix |-> "data", rest |-> ":image/png;base64,1"]

\* article.image_url: the link of an image on the web (the feed is asked
\* for articles with an image, news.ts:24, 43-45)
image_url(article) == [prefix |-> "http", rest |-> "s://"]

\* variant: one message for every source
loadImageErrorSameForAll(src) == LoadFailMsg

\* the message loadImage rejects with, canvas.ts:21-30
loadImageError(src) ==
    IF src.prefix # "http" THEN CriticalMsg ELSE LoadFailMsg

\* loadImage(article.image_url) rejects, App.tsx:143-146
LoadImageFail(r) ==
    /\ runs[r].pc = "load_image"
    /\ ~Busy
    /\ ProcessAdvance(r, GENERATING_IMAGE, "generate",
                      log(StatusLog,
                          ProcessEntry(r, "INFO",
                                       << "Article image failed. Generating new one." >>,
                                       [error |-> loadImageError(
                                                     image_url(CurrentBundle(r).article))])))

\* generateImageFromPrompt resolves, App.tsx:146-147
GenerateOk(r) ==
    /\ runs[r].pc = "generate"
    /\ ~Busy
    /\ runs' = [runs EXCEPT ![r].pc = "load_generated"]
    /\ UNCHANGED << uiVars, flagVars, logVars, tasks >>

\* generateImageFromPrompt rejects, imageGenerator.ts:57-60
GenerateFail(r) ==
    /\ runs[r].pc = "generate"
    /\ ~Busy
    /\ ProcessCatch(r, NewError(GenerateFailMsg))

\* loadImage(generatedImageBase64) resolves, App.tsx:147, 150-152
LoadGeneratedOk(r) ==
    /\ runs[r].pc = "load_generated"
    /\ ~Busy
    /\ ProcessAdvance(r, COMPOSING, "compose",
                      log(StatusLog,
                          ProcessEntry(r, "INFO", << "Composing final image." >>, <<>>)))

\* loadImage(generatedImageBase64) rejects, canvas.ts:21-26
LoadGeneratedFail(r) ==
    /\ runs[r].pc = "load_generated"
    /\ ~Busy
    /\ ProcessCatch(r, NewError(loadImageError(generatedImageBase64)))

\* composeImage resolves, App.tsx:152-163
ComposeOk(r) ==
    /\ runs[r].pc = "compose"
    /\ ~Busy
    /\ ProcessAdvance(r, UPLOADING, "upload",
                      log(StatusLog,
                          ProcessEntry(r, "INFO", << "Uploading to Cloudinary." >>, <<>>)))

\* LOGO_URL and OVERLAY_IMAGE_URL, constants.ts:39-45
LOGO_URL == [prefix |-> "http", rest |-> "s://res.cloudinary.com/logo"]

OVERLAY_IMAGE_URL == [prefix |-> "http", rest |-> "s://res.cloudinary.com/overlay"]

\* what composeImage rejects with: there is no 2d context, canvas.ts:146-148,
\* or its load of the overlay or of the logo fails, canvas.ts:228, 233
ComposeFailures ==
    { NewError(ComposeFailMsg),
      NewError(loadImageError(OVERLAY_IMAGE_URL)),
      NewError(loadImageError(LOGO_URL)) }

\* composeImage rejects, App.tsx:152-159
ComposeFail(r, err) ==
    /\ runs[r].pc = "compose"
    /\ ~Busy
    /\ ProcessCatch(r, err)

\* variant: the payload carries the article's own image link
webhookPayloadOfArticleImage(bundle, imageUrl) ==
    [ headline |-> bundle.analysis.headline,
      imageUrl |-> "article.image_url",
      summary  |-> bundle.analysis.caption,
      newsLink |-> bundle.article.link,
      status   |-> "Queue" ]

\* webhookPayload, App.tsx:167-173
webhookPayload(bundle, imageUrl) ==
    [ headline |-> bundle.analysis.headline,
      imageUrl |-> imageUrl,
      summary  |-> bundle.analysis.caption,
      newsLink |-> bundle.article.link,
      status   |-> "Queue" ]

\* uploadToCloudinary resolves with the secure_url; sendToMakeWebhook is
\* called with the payload, App.tsx:163-174
UploadOk(r, url) ==
    /\ runs[r].pc = "upload"
    /\ ~Busy
    /\ tasks' = updateTask(tasks, CurrentBundle(r).taskId,
                           [status |-> SENDING_WEBHOOK])
    /\ runs' = [runs EXCEPT ![r] =
                  [@ EXCEPT !.pc = "webhook", !.imageUrl = << url >>,
                            !.payload = << webhookPayload(CurrentBundle(r), url) >>]]
    /\ Logged(log(StatusLog,
                  ProcessEntry(r, "INFO", << "Sending to workflow." >>, <<>>)))
    /\ UNCHANGED << uiVars, flagVars >>

\* uploadToCloudinary rejects, cloudinary.ts (part_003:34-38)
UploadFail(r, err) ==
    /\ runs[r].pc = "upload"
    /\ ~Busy
    /\ ProcessCatch(r, err)

\* the result record of a finished bundle, App.tsx:178-184
TaskResultOf(bundle, imageUrl) ==
    [ headline   |-> bundle.analysis.headline,
      imageUrl   |-> imageUrl,
      caption    |-> bundle.analysis.caption,
      sourceUrl  |-> bundle.article.link,
      sourceName |-> bundle.analysis.sourceName ]

\* sendToMakeWebhook resolves, App.tsx:174-187
WebhookOk(r, response) ==
    /\ runs[r].pc = "webhook"
    /\ ~Busy
    /\ sendToMakeWebhook(response).kind = "resolve"
    /\ tasks' = updateTask(tasks, CurrentBundle(r).taskId,
                  [status |-> DONE,
                   result |-> << TaskResultOf(CurrentBundle(r), runs[r].imageUrl[1]) >>])
    /\ completedCount' = completedCount + 1
    /\ runs' = [runs EXCEPT ![r] = [@ EXCEPT !.pc = "p2_next", !.j = @ + 1,
                                             !.imageUrl = <<>>, !.payload = <<>>]]
    /\ Logged(log(StatusLog,
                  ProcessEntry(r, "SUCCESS", << "Task completed successfully!" >>,
                               [headline |-> CurrentBundle(r).analysis.headline])))
    /\ Called([fn |-> "sendToMakeWebhook", payload |-> runs[r].payload[1],
               response |-> response],
              sendToMakeWebhook(response))
    /\ UNCHANGED << pageVars, isProcessing, isProcessingRef >>

\* sendToMakeWebhook rejects, webhook.ts (part_002:21-37)
WebhookFail(r, response) ==
    /\ runs[r].pc = "webhook"
    /\ ~Busy
    /\ sendToMakeWebhook(response).kind = "throw"
    /\ Caught(r, sendToMakeWebhook(response).error)
    /\ Called([fn |-> "sendToMakeWebhook", payload |-> runs[r].payload[1],
               response |-> response],
              sendToMakeWebhook(response))

\* the Phase 2 loop is exhausted: setIsProcessing(false), App.tsx:197-198
Finish(r) ==
    /\ runs[r].pc = "p2_next"
    /\ runs[r].j > Len(runs[r].collectedData)
    /\ isProcessing' = FALSE
    /\ isProcessingRef' = FALSE
    /\ runs' = [runs EXCEPT ![r] = IdleRun]
    /\ Logged(log(StatusLog, Entry("SUCCESS", FinishedMsg, <<>>, <<>>)))
    /\ UNCHANGED << uiVars, tasks, completedCount >>

\* ------------------------------------------------------------ specification
\* the state of the component when the page has loaded
PageLoad ==
    /\ urlParams \in UrlParamValues
    /\ isAuthenticated = FALSE
    /\ tasks = <<>>
    /\ isProcessing = FALSE
    /\ completedCount = 0
    /\ logs = <<>>
    /\ hasTriggeredFromUrl = FALSE
    /\ isProcessingRef = FALSE
    /\ password = ""
    /\ effectPending = TRUE
    /\ startTimer = FALSE
    /\ runs = [r \in RunIds |-> IdleRun]
    /\ mirror = 0

\* no function is being checked on its own
NoFunctionCall ==
    /\ arg = <<>>
    /\ ret = <<>>

\* the status log is left out of the state
StatusLogLeftOut == follows = {}

\* Two batches can be in progress at once only after an accepted URL start
\* request; those page loads are explored with the shortest category list.
Init ==
    /\ NEWS_CATEGORIES \in CategoryConfigs
    /\ PageLoad
    /\ NoFunctionCall
    /\ StatusLogLeftOut
    /\ (UrlStartAccepted => Len(NEWS_CATEGORIES) = 2)

\* the steps of run r at which a sub-fetch of the aggregate category settles
SubFetchStep(r) ==
    \/ \E k \in 1..Len(otherCategoryValues) :
          \E articles \in FetchResults : SubFetchReturn(r, k, articles)
    \/ \E k \in 1..Len(otherCategoryValues) :
          \E err \in FetchFailures : SubFetchFail(r, k, err)

\* the other steps of run r
SequentialStep(r) ==
    \/ GatherNext(r)
    \/ \E articles \in FetchResults : FetchReturn(r, articles)
    \/ \E err \in FetchFailures : FetchFail(r, err)
    \/ \E response \in AiResponses(runs[r].unusedArticles) : AnalyzeReturn(r, response)
    \/ GatherEnd(r)
    \/ ProcessNext(r)
    \/ LoadImageOk(r)
    \/ LoadImageFail(r)
    \/ GenerateOk(r)
    \/ GenerateFail(r)
    \/ LoadGeneratedOk(r)
    \/ LoadGeneratedFail(r)
    \/ ComposeOk(r)
    \/ \E err \in ComposeFailures : ComposeFail(r, err)
    \/ \E url \in UploadUrls : UploadOk(r, url)
    \/ \E err \in UploadFailures : UploadFail(r, err)
    \/ \E response \in WebhookResponses : WebhookOk(r, response)
    \/ \E response \in WebhookResponses : WebhookFail(r, response)
    \/ Finish(r)

\* variant: run r goes on once the sends of its log entries have settled
RunStepAwaitsSends(r) ==
    /\ mirror = 0
    /\ (SubFetchStep(r) \/ SequentialStep(r))

\* the steps of run r
RunStep(r) ==
    \/ SubFetchStep(r)
    \/ SequentialStep(r)

Next ==
    \/ UrlEffect
    \/ TimerFire
    \/ \E value \in Passwords \cup { "" } : SetPassword(value)
    \/ PasswordSubmit
    \/ ClickStart
    \/ \E r \in RunIds : RunStep(r)

Spec == Init /\ [][Next]_vars

\* The page is loaded without a start request that the URL effect accepts
\* (no action=start, or a missing or wrong password): batches are started
\* with the button only.
InitButton ==
    /\ Init
    /\ ~UrlStartAccepted

NextButton ==
    \/ UrlEffect
    \/ \E value \in Passwords \cup { "" } : SetPassword(value)
    \/ PasswordSubmit
    \/ ClickStart
    \/ \E r \in RunIds : RunStep(r)

SpecButton == InitButton /\ [][NextButton]_vars

\* every external call that is awaited returns or fails, and the code
\* between two awaits runs on
Fairness == \A r \in RunIds : SF_vars(RunStep(r))

FairSpec == Spec /\ Fairness

FairSpecButton == SpecButton /\ Fairness

\* the state of the program, for a step that only applies a function
appVars == << NEWS_CATEGORIES, urlParams, isAuthenticated, tasks, isProcessing,
              completedCount, logs, hasTriggeredFromUrl, isProcessingRef,
              password, effectPending, startTimer, runs, mirror, follows >>

\* ------------------------------------------------- vocabulary of the claims
Phase1Pcs == { "p1_next", "fetch", "fetch_all", "analyze" }

Phase2Pcs == { "p2_next", "load_image", "generate", "load_generated",
               "compose", "upload", "webhook" }

TerminalStatuses == { DONE, ERROR }

InProgressStatuses ==
    { GATHERING, PROCESSING, GENERATING_IMAGE, COMPOSING, UPLOADING,
      SENDING_WEBHOOK }

\* the positions a task can have in the task collection
TaskPositions == 1..NumCategories

\* the step starts a batch (and replaces the task collection)
BatchStarts == \E r \in RunIds : ~Active(r) /\ Active(r)'

\* the step is one of run r
StepOf(r) == runs'[r] # runs[r]

ActiveRuns == { r \in RunIds : Active(r) }

\* run r holds a bundle for the task id
HasBundle(r, taskId) ==
    \E n \in 1..Len(runs[r].collectedData) : runs[r].collectedData[n].taskId = taskId

\* the status changes of the success path
SuccessPathMoves ==
    { << PENDING, GATHERING >>, << GATHERING, GATHERED >>,
      << GATHERED, PROCESSING >>, << PROCESSING, GENERATING_IMAGE >>,
      << PROCESSING, COMPOSING >>, << GENERATING_IMAGE, COMPOSING >>,
      << COMPOSING, UPLOADING >>, << UPLOADING, SENDING_WEBHOOK >>,
      << SENDING_WEBHOOK, DONE >> }

\* ---------------------------------------------------------------------- C1
\* C1: within one batch (a step that starts a batch replaces the tasks and
\* is set aside) a task that has left PENDING is never PENDING again, and a
\* task that is DONE or ERROR keeps its status, result and error in every
\* later step.
C1_StatusMonotone ==
    [][ BatchStarts \/
        \A k \in DOMAIN tasks :
            /\ tasks[k].status # PENDING => tasks'[k].status # PENDING
            /\ tasks[k].status \in TerminalStatuses =>
                  /\ tasks'[k].status = tasks[k].status
                  /\ tasks'[k].result = tasks[k].result
                  /\ tasks'[k].error  = tasks[k].error ]_vars

\* ---------------------------------------------------------------------- C2
\* C2: every status change of a task (other than the replacement of the
\* tasks at a batch start) is a move to ERROR or a move to the next state of
\* the success path, where only GENERATING_IMAGE may be skipped.
C2_SuccessPathOrError ==
    [][ BatchStarts \/
        \A k \in DOMAIN tasks :
            tasks'[k].status # tasks[k].status =>
                \/ tasks'[k].status = ERROR
                \/ << tasks[k].status, tasks'[k].status >> \in SuccessPathMoves ]_vars

\* ---------------------------------------------------------------------- C3
\* the step that sets a task to ERROR changes no other task
ErrorStepIsTaskScoped ==
    \A k \in DOMAIN tasks :
        (tasks[k].status # ERROR /\ tasks'[k].status = ERROR) =>
            \A m \in DOMAIN tasks : m # k => tasks'[m] = tasks[m]

\* Phase 1 is in progress, task k has failed and the later task m still waits
FailedBeforePending(k, m) ==
    /\ m \in DOMAIN tasks
    /\ \E r \in RunIds : runs[r].pc \in Phase1Pcs
    /\ tasks[k].status = ERROR
    /\ tasks[m].status = PENDING

\* Phase 2 is in progress, the bundle of task k has failed and the later
\* bundle of task m still waits
FailedBeforeGathered(k, m) ==
    /\ m \in DOMAIN tasks
    /\ \E r \in RunIds :
          /\ runs[r].pc \in Phase2Pcs
          /\ HasBundle(r, tasks[k].id)
          /\ HasBundle(r, tasks[m].id)
    /\ tasks[k].status = ERROR
    /\ tasks[m].status = GATHERED

StatusIs(m, status) == m \in DOMAIN tasks /\ tasks[m].status = status

\* C3: failure is task-scoped: the step that sets a task to ERROR changes no
\* other task; after a category has failed in Phase 1 every later category
\* is still moved to GATHERING, and after a bundle has failed in Phase 2
\* every later gathered bundle is still moved to PROCESSING.
C3_FailureIsTaskScoped ==
    /\ [][ErrorStepIsTaskScoped]_vars
    /\ \A k \in TaskPositions : \A m \in TaskPositions :
          k < m => (FailedBeforePending(k, m) ~> StatusIs(m, GATHERING))
    /\ \A k \in TaskPositions : \A m \in TaskPositions :
          k < m => (FailedBeforeGathered(k, m) ~> StatusIs(m, PROCESSING))

\* a bundle has failed in Phase 2 and the next one is being processed
C3_Witness ==
    /\ Len(tasks) >= 2
    /\ tasks[1].status = ERROR
    /\ tasks[1].error = << UploadFailMsg >>
    /\ tasks[2].status = PROCESSING

\* ---------------------------------------------------------------------- C4
\* C4: with every awaited call returning or failing, every batch that was
\* started reaches its end and sets the running flag to false there,
\* whatever the outcomes of the calls.
C4_BatchTerminates ==
    \A r \in RunIds : Active(r) ~> (~Active(r) /\ ~isProcessing)

\* a batch with a failed and a completed task has ended
C4_Witness ==
    /\ ~isProcessing
    /\ ActiveRuns = {}
    /\ \E k \in DOMAIN tasks : tasks[k].status = ERROR
    /\ \E k \in DOMAIN tasks : tasks[k].status = DONE

\* ---------------------------------------------------------------------- C5
\* C5: whenever the running flag is false every task of the live task
\* collection is DONE or ERROR.
C5_NotRunningMeansTerminal ==
    ~isProcessing =>
        \A k \in DOMAIN tasks : tasks[k].status \in TerminalStatuses

\* ---------------------------------------------------------------------- C6
\* C6: at most one run of the batch procedure is in progress at any time,
\* and no step starts a batch (resetting tasks and counter) while one runs.
C6_OneBatchAtATime ==
    /\ [](Cardinality(ActiveRuns) <= 1)
    /\ [][ BatchStarts => ActiveRuns = {} ]_vars

\* ---------------------------------------------------------------------- C7
\* the links of the bundles of run r are pairwise distinct
DistinctBundleLinks(r) ==
    LET c == runs[r].collectedData
    IN  \A a \in 1..Len(c) : \A b \in 1..Len(c) :
            a # b => c[a].article.link # c[b].article.link

\* run r records a bundle in this step
RecordsBundle(r) ==
    Len(runs'[r].collectedData) = Len(runs[r].collectedData) + 1

UsedLinkSteps ==
    \A r \in RunIds :
        /\ RecordsBundle(r) =>
              LET b == runs'[r].collectedData[Len(runs'[r].collectedData)]
              IN  /\ b.article.link \notin runs[r].usedArticleLinks
                  /\ runs'[r].usedArticleLinks =
                        runs[r].usedArticleLinks \cup { b.article.link }
        /\ (Active(r) /\ Active(r)') =>
              runs[r].usedArticleLinks \subseteq runs'[r].usedArticleLinks
        /\ (runs[r].pc \in Phase2Pcs /\ Active(r)') =>
              runs'[r].usedArticleLinks = runs[r].usedArticleLinks

\* C7: the article chosen for a category never has a link that an earlier
\* category of the same batch has claimed, so the links of the bundles of a
\* batch are pairwise distinct; the used-link set only grows during Phase 1
\* and does not change in Phase 2.
C7_UsedLinkExclusion ==
    /\ [](\A r \in RunIds : DistinctBundleLinks(r))
    /\ [][UsedLinkSteps]_vars

\* a later category is being analysed while an earlier one has claimed a link
C7_Witness ==
    \E r \in RunIds :
        /\ Len(runs[r].collectedData) = 2
        /\ Cardinality(runs[r].usedArticleLinks) = 2

\* ---------------------------------------------------------------------- C8
\* the task ids of the bundles of run r are pairwise distinct
DistinctBundleTasks(r) ==
    LET c == runs[r].collectedData
    IN  \A a \in 1..Len(c) : \A b \in 1..Len(c) :
            a # b => c[a].taskId # c[b].taskId

\* the step sets the task at position k to status
Sets(k, status) ==
    /\ k \in DOMAIN tasks
    /\ tasks[k].status # status
    /\ tasks'[k].status = status

BundleSteps ==
    \A r \in RunIds :
        (StepOf(r) /\ Active(r) /\ Active(r)') =>
            LET i == runs[r].i
                c == runs[r].collectedData
                c2 == runs'[r].collectedData
            IN  \* a bundle is recorded exactly in the step that ends the
                \* gathering of a category with GATHERED, and it is the
                \* bundle of that category
                /\ (c2 # c) <=> /\ runs[r].pc \in Phase1Pcs
                                /\ runs'[r].i = i + 1
                                /\ tasks'[i].status = GATHERED
                /\ (c2 # c) => /\ RecordsBundle(r)
                               /\ SubSeq(c2, 1, Len(c)) = c
                               /\ c2[Len(c2)].taskId = tasks[i].id
                \* a Phase 1 failure records nothing
                /\ (runs[r].pc \in Phase1Pcs /\ runs'[r].i = i + 1
                      /\ tasks'[i].status = ERROR) => c2 = c
                \* Phase 2 touches only tasks that have a bundle
                /\ runs[r].pc \in Phase2Pcs =>
                      \A k \in DOMAIN tasks :
                          tasks'[k] # tasks[k] => HasBundle(r, tasks[k].id)

\* C8: there is at most one bundle per task id; a bundle is recorded for a
\* category exactly in the step that sets its task to GATHERED; a category
\* that failed in Phase 1 has no bundle and is not touched by Phase 2.
C8_OneBundlePerGatheredTask ==
    /\ [](\A r \in RunIds : DistinctBundleTasks(r))
    /\ [][BundleSteps]_vars

\* Phase 2 runs with one bundle while another category has failed in Phase 1
C8_Witness ==
    \E r \in RunIds :
        /\ runs[r].pc \in Phase2Pcs
        /\ Len(runs[r].collectedData) >= 1
        /\ \E k \in DOMAIN tasks :
              /\ tasks[k].status = ERROR
              /\ ~HasBundle(r, tasks[k].id)

\* ---------------------------------------------------------------------- C9
\* the bundles of run r are in the configured category order
BundlesInConfiguredOrder(r) ==
    LET c == runs[r].collectedData
        pos(taskId) == CHOOSE k \in 1..N : NEWS_CATEGORIES[k].apiValue = taskId
    IN  \A a \in 1..Len(c) : \A b \in 1..Len(c) :
            a < b => pos(c[a].taskId) < pos(c[b].taskId)

\* C9: no task is set to PROCESSING while any task is still PENDING or
\* GATHERING, and the bundles are processed in the order in which they
\* were gathered, which is the configured category order.
C9_PhasesDoNotOverlap ==
    /\ [][ \A k \in DOMAIN tasks :
              (~BatchStarts /\ Sets(k, PROCESSING)) =>
                  \A m \in DOMAIN tasks :
                      tasks[m].status \notin { PENDING, GATHERING } ]_vars
    /\ [](\A r \in RunIds : BundlesInConfiguredOrder(r))
    /\ [][ \A r \in RunIds :
              (runs[r].pc \in Phase2Pcs /\ Active(r)') =>
                  /\ runs'[r].j \in { runs[r].j, runs[r].j + 1 }
                  /\ runs'[r].collectedData = runs[r].collectedData ]_vars

\* --------------------------------------------------------------------- C10
\* C10: at any time at most one task is in an in-progress status.
C10_OneTaskInProgress ==
    Cardinality({ k \in DOMAIN tasks : tasks[k].status \in InProgressStatuses }) <= 1

\* --------------------------------------------------------------------- C11
\* the task at position k has a result exactly when it is DONE and an error
\* message exactly when it is ERROR
ResultAndErrorMatchStatus ==
    \A k \in DOMAIN tasks :
        /\ (tasks[k].result # <<>>) <=> (tasks[k].status = DONE)
        /\ (tasks[k].error # <<>>) <=> (tasks[k].status = ERROR)

\* the step that sets a task to DONE stores the headline, the uploaded image
\* URL, the caption, the article link and the source name of its bundle
DoneStoresBundle ==
    \A k \in DOMAIN tasks :
        (~BatchStarts /\ Sets(k, DONE)) =>
            \E r \in RunIds :
                /\ StepOf(r)
                /\ runs[r].pc = "webhook"
                /\ LET b == runs[r].collectedData[runs[r].j]
                       res == tasks'[k].result
                   IN  /\ b.taskId = tasks[k].id
                       /\ Len(res) = 1
                       /\ res[1].headline = b.analysis.headline
                       /\ res[1].imageUrl = runs[r].imageUrl[1]
                       /\ res[1].caption = b.analysis.caption
                       /\ res[1].sourceUrl = b.article.link
                       /\ res[1].sourceName = b.analysis.sourceName

\* C11: in every reachable state a task has a result if and only if its
\* status is DONE and an error message if and only if its status is ERROR;
\* the result of a DONE task holds the analysis headline, the uploaded image
\* URL, the caption, the article link and the source name.
C11_ResultIffDoneErrorIffError ==
    /\ []ResultAndErrorMatchStatus
    /\ [][DoneStoresBundle]_vars

\* --------------------------------------------------------------------- C12
DoneCount ==
    Cardinality({ k \in DOMAIN tasks : tasks[k].status = DONE })

\* the counter is reset by a batch start and otherwise changes only by one,
\* in the step that sets a task to DONE
CounterSteps ==
    /\ BatchStarts => completedCount' = 0
    /\ ~BatchStarts =>
          /\ (\E k \in DOMAIN tasks : Sets(k, DONE)) <=>
                (completedCount' # completedCount)
          /\ completedCount' \in { completedCount, completedCount + 1 }

\* C12: the completed counter is 0 at batch start, is incremented by exactly
\* one in the step in which a task is set to DONE, always equals the number
\* of DONE tasks and never exceeds the number of tasks.
C12_CounterCountsDone ==
    /\ [](completedCount = DoneCount /\ completedCount <= Len(tasks))
    /\ [][CounterSteps]_vars

\* --------------------------------------------------------------------- C13
\* The end-to-end scenario: two configured categories (any two of the
\* configured ones, in their order); the feed of the first returns one
\* eligible article, its analysis and all later steps succeed; the feed of
\* the second returns no article that is not already used.
ScenarioConfigs ==
    LET positions == 1..Len(ConfiguredCategories)
    IN  { << ConfiguredCategories[p[1]], ConfiguredCategories[p[2]] >> :
            p \in { q \in positions \X positions : q[1] < q[2] } }

InitScenario ==
    /\ NEWS_CATEGORIES \in ScenarioConfigs
    /\ PageLoad
    /\ NoFunctionCall
    /\ StatusLogLeftOut
    /\ ~UrlStartAccepted

\* the steps of run r with the outcomes of the scenario
ScenarioStep(r) ==
    \/ GatherNext(r)
    \/ \E k \in 1..Len(otherCategoryValues) :
          \E articles \in FetchResults :
              /\ runs[r].i = 1
              /\ Len(articles) = 1
              /\ SubFetchReturn(r, k, articles)
    \/ \E articles \in FetchResults :
          /\ runs[r].i = 1
          /\ Len(articles) = 1
          /\ FetchReturn(r, articles)
    \/ \E articles \in FetchResults :
          /\ runs[r].i = 2
          /\ \A n \in 1..Len(articles) :
                articles[n].link \in runs[r].usedArticleLinks
          /\ FetchReturn(r, articles)
    \/ \E response \in AiResponses(runs[r].unusedArticles) :
          /\ response.kind = "chosen"
          /\ response.id \in 1..Len(runs[r].unusedArticles)
          /\ AnalyzeReturn(r, response)
    \/ GatherEnd(r)
    \/ ProcessNext(r)
    \/ LoadImageOk(r)
    \/ LoadImageFail(r)
    \/ GenerateOk(r)
    \/ LoadGeneratedOk(r)
    \/ ComposeOk(r)
    \/ \E url \in UploadUrls : UploadOk(r, url)
    \/ \E response \in WebhookResponses : WebhookOk(r, response)
    \/ Finish(r)

NextScenario ==
    \/ UrlEffect
    \/ \E value \in Passwords \cup { "" } : SetPassword(value)
    \/ PasswordSubmit
    \/ ClickStart
    \/ \E r \in RunIds : ScenarioStep(r)

SpecScenario == InitScenario /\ [][NextScenario]_vars

\* the state the scenario ends in
ScenarioOutcome ==
    /\ Len(tasks) = 2
    /\ tasks[1].status = DONE
    /\ Len(tasks[1].result) = 1
    /\ tasks[1].result[1].imageUrl \in UploadUrls
    /\ tasks[1].result[1].sourceUrl \in Links
    /\ tasks[2].status = ERROR
    /\ tasks[2].error = << NoUnusedMsg >>
    /\ ~isProcessing
    /\ completedCount = 1

BundleTask(r) ==
    CHOOSE k \in DOMAIN tasks : tasks[k].id = runs[r].collectedData[runs[r].j].taskId

\* the step is one of run r that takes it from one await to another
Moves(r, from, to) ==
    /\ StepOf(r)
    /\ runs[r].pc = from
    /\ runs'[r].pc = to

\* a task is set to GENERATING_IMAGE from PROCESSING, by the step in which
\* the load of the article's own image fails
GeneratingOnlyAfterFailedLoad ==
    \A k \in DOMAIN tasks :
        (~BatchStarts /\ Sets(k, GENERATING_IMAGE)) =>
            /\ tasks[k].status = PROCESSING
            /\ \E r \in RunIds : Moves(r, "load_image", "generate") /\ BundleTask(r) = k

\* when the load of the article's own image succeeds the task goes from
\* PROCESSING to COMPOSING
LoadedGoesToComposing ==
    \A r \in RunIds :
        Moves(r, "load_image", "compose") =>
            /\ tasks[BundleTask(r)].status = PROCESSING
            /\ tasks'[BundleTask(r)].status = COMPOSING
            /\ runs'[r].j = runs[r].j

\* the image generation is called only by the step in which that load fails
GenerationOnlyAfterFailedLoad ==
    \A r \in RunIds :
        (StepOf(r) /\ runs'[r].pc = "generate") => runs[r].pc = "load_image"

\* C14: a task enters GENERATING_IMAGE only from PROCESSING and only after
\* the load of the article's own image has failed; when that load succeeds
\* the task goes from PROCESSING directly to COMPOSING and the image
\* generation is not called for it.
C14_GenerationOnlyAsFallback ==
    /\ [][GeneratingOnlyAfterFailedLoad]_vars
    /\ [][LoadedGoesToComposing]_vars
    /\ [][GenerationOnlyAfterFailedLoad]_vars

\* --------------------------------------------------------------------- C15
\* the step that ends the load of the article's own image goes on to the
\* composition or to the fallback, and does not set the task to ERROR
OwnImageFailureIsNotAnError ==
    \A r \in RunIds :
        (StepOf(r) /\ runs[r].pc = "load_image") =>
            /\ runs'[r].pc \in { "compose", "generate" }
            /\ runs'[r].j = runs[r].j
            /\ tasks'[BundleTask(r)].status =
                  IF runs'[r].pc = "generate" THEN GENERATING_IMAGE ELSE COMPOSING

\* a fallback that cannot be generated or loaded ends the bundle in ERROR,
\* and the run goes on to the next bundle without composing
FallbackFailureIsAnError ==
    \A r \in RunIds :
        (StepOf(r) /\ runs[r].pc \in { "generate", "load_generated" }) =>
            \/ Moves(r, "generate", "load_generated")
            \/ Moves(r, "load_generated", "compose")
            \/ /\ tasks'[BundleTask(r)].status = ERROR
               /\ runs'[r].pc = "p2_next"
               /\ runs'[r].j = runs[r].j + 1
               /\ runs[r].pc = "load_generated" =>
                     tasks'[BundleTask(r)].error = << CriticalMsg >>
               /\ runs[r].pc = "generate" =>
                     tasks'[BundleTask(r)].error = << GenerateFailMsg >>

\* C15: a failure to load the article's own image never puts the task in
\* ERROR but leads to the fallback attempt; if the fallback image cannot be
\* generated or loaded the task ends in ERROR without reaching COMPOSING,
\* and the failed load of the fallback source is reported with the
\* 'CRITICAL' message.
C15_FallbackFailureIsCritical ==
    /\ [][OwnImageFailureIsNotAnError]_vars
    /\ [][FallbackFailureIsAnError]_vars

\* the load of a generated fallback image has failed
C15_Witness ==
    \E k \in DOMAIN tasks :
        /\ tasks[k].status = ERROR
        /\ tasks[k].error = << CriticalMsg >>

\* --------------------------------------------------------------------- C16
\* the webhook is dispatched by the step in which the upload returns a URL,
\* with that URL, the headline, the caption, the article link and 'Queue'
DispatchAfterUpload ==
    \A r \in RunIds :
        (StepOf(r) /\ runs'[r].pc = "webhook") =>
            /\ runs[r].pc = "upload"
            /\ runs'[r].j = runs[r].j
            /\ Len(runs'[r].imageUrl) = 1
            /\ runs'[r].imageUrl[1] \in UploadUrls
            /\ LET b == runs[r].collectedData[runs[r].j]
               IN  runs'[r].payload =
                      << [ headline |-> b.analysis.headline,
                           imageUrl |-> runs'[r].imageUrl[1],
                           summary  |-> b.analysis.caption,
                           newsLink |-> b.article.link,
                           status   |-> "Queue" ] >>

\* a task is set to DONE by the step in which the dispatch for its bundle
\* succeeds
DoneAfterDispatch ==
    \A k \in DOMAIN tasks :
        (~BatchStarts /\ Sets(k, DONE)) =>
            \E r \in RunIds :
                /\ Moves(r, "webhook", "p2_next")
                /\ BundleTask(r) = k
                /\ runs[r].payload # <<>>

\* a failed upload ends the bundle without a dispatch
NoDispatchAfterFailedUpload ==
    \A r \in RunIds :
        (StepOf(r) /\ runs[r].pc = "upload" /\ runs'[r].pc # "webhook") =>
            /\ runs'[r].pc = "p2_next"
            /\ runs'[r].j = runs[r].j + 1
            /\ runs'[r].payload = <<>>
            /\ tasks'[BundleTask(r)].status = ERROR

\* no dispatch is outstanding except between the upload and its own end
PayloadOnlyWhileDispatching ==
    \A r \in RunIds : (runs[r].payload # <<>>) <=> (runs[r].pc = "webhook")

\* C16: for every bundle the webhook is dispatched only after the upload of
\* its composed image has returned a URL; the payload carries that URL, the
\* analysis headline, the caption, the article link and the status 'Queue';
\* the task is set to DONE only after the dispatch has succeeded; a failed
\* upload means no dispatch for that bundle.
C16_DispatchAfterUpload ==
    /\ [][DispatchAfterUpload]_vars
    /\ [][DoneAfterDispatch]_vars
    /\ [][NoDispatchAfterFailedUpload]_vars
    /\ []PayloadOnlyWhileDispatching

\* a dispatch is outstanding for a bundle whose image was uploaded
C16_Witness ==
    \E r \in RunIds :
        /\ runs[r].pc = "webhook"
        /\ Len(runs[r].payload) = 1
        /\ runs[r].payload[1].imageUrl \in UploadUrls
        /\ runs[r].payload[1].status = "Queue"

\* --------------------------------------------------------------------- C17
\* the external call a run awaits at a program counter
AwaitedCall ==
    [ fetch |-> "fetch", fetch_all |-> "fetch",
      analyze |-> "analysis",
      load_image |-> "load", generate |-> "generation",
      load_generated |-> "load", compose |-> "composition",
      upload |-> "upload", webhook |-> "webhook" ]

\* the place of a program counter in the body of its loop
PcOrder ==
    [ p1_next |-> 0, fetch |-> 1, fetch_all |-> 1, analyze |-> 2,
      p2_next |-> 0, load_image |-> 1, generate |-> 2, load_generated |-> 3,
      compose |-> 4, upload |-> 5, webhook |-> 6 ]

\* where a run is: the phase, the category or bundle, the place in the body
Place(run) ==
    IF run.pc \in Phase1Pcs THEN << 1, run.i, PcOrder[run.pc] >>
    ELSE << 2, run.j, PcOrder[run.pc] >>

Earlier(p, q) ==
    \/ p[1] < q[1]
    \/ p[1] = q[1] /\ p[2] < q[2]
    \/ p[1] = q[1] /\ p[2] = q[2] /\ p[3] < q[3]

\* every step of a batch takes it to a later place, and a call is made for
\* the category or bundle the batch is at: no call is made twice for the
\* same category or bundle
NoCallTwice ==
    \A r \in RunIds :
        (StepOf(r) /\ Active(r) /\ Active(r)') =>
            /\ \/ Earlier(Place(runs[r]), Place(runs'[r]))
               \/ \* one of several sub-fetches settles: no call is made
                  /\ runs[r].pc = "fetch_all"
                  /\ runs'[r].pc = "fetch_all"
                  /\ runs'[r].i = runs[r].i
                  /\ runs'[r].pending # runs[r].pending
                  /\ runs'[r].pending \subseteq runs[r].pending
            /\ runs'[r].pc \in DOMAIN AwaitedCall =>
                  /\ Place(runs'[r])[1] = Place(runs[r])[1]
                  /\ Place(runs'[r])[2] = Place(runs[r])[2]

\* the task a run is working on
TaskOf(r) ==
    IF runs[r].pc \in Phase1Pcs THEN runs[r].i ELSE BundleTask(r)

\* the step that sets a task to ERROR takes the batch to the head of the
\* loop, at the next category or bundle
ErrorEndsTheTask ==
    \A r \in RunIds :
        (/\ StepOf(r)
         /\ runs[r].pc \in DOMAIN AwaitedCall
         /\ tasks'[TaskOf(r)] # tasks[TaskOf(r)]
         /\ tasks'[TaskOf(r)].status = ERROR) =>
            /\ runs'[r].pc \in SyncPcs
            /\ Place(runs'[r])[2] = Place(runs[r])[2] + 1

\* C17: there is no retry: within one batch the analysis is invoked at most
\* once per category, and image generation, composition, upload and webhook
\* dispatch at most once per bundle; a task that reached ERROR triggers no
\* further external call in the batch.
C17_NoRetry ==
    /\ [][NoCallTwice]_vars
    /\ [][ErrorEndsTheTask]_vars

\* the upload of the second bundle is awaited after the composition of the
\* first has failed
C17_Witness ==
    \E r \in RunIds :
        /\ runs[r].pc = "upload"
        /\ runs[r].j = 2
        /\ \E k \in DOMAIN tasks :
              /\ tasks[k].id = runs[r].collectedData[1].taskId
              /\ tasks[k].error = << ComposeFailMsg >>

\* --------------------------------------------------------------------- C18
\* A sub-fetch of the aggregate category that is still outstanding when
\* Promise.all has rejected settles; nothing awaits it, App.tsx:82-84
SubFetchLate(r, k) ==
    /\ runs[r].pc # "fetch_all"
    /\ k \in runs[r].pending
    /\ ~Busy
    /\ runs' = [runs EXCEPT ![r].pending = @ \ {k}]
    /\ UNCHANGED << uiVars, flagVars, logVars, tasks >>

\* the aggregate category and at least two categories for it to merge
JoinConfigs ==
    { SubSeq(ConfiguredCategories, 1, n) : n \in 3..(NumCategories + 1) }

InitJoin ==
    /\ NEWS_CATEGORIES \in JoinConfigs
    /\ PageLoad
    /\ NoFunctionCall
    /\ StatusLogLeftOut
    /\ ~UrlStartAccepted

NextJoin ==
    \/ UrlEffect
    \/ \E value \in Passwords \cup { "" } : SetPassword(value)
    \/ PasswordSubmit
    \/ ClickStart
    \/ \E r \in RunIds : RunStep(r)
    \/ \E r \in RunIds : \E k \in 1..Len(otherCategoryValues) : SubFetchLate(r, k)

SpecJoin == InitJoin /\ [][NextJoin]_vars

\* C18: for the aggregate category the sub-fetches are joined: while a
\* sub-fetch is outstanding the batch waits for it, and the step that
\* leaves the wait (to merge, to set the aggregate task to ERROR, to go on
\* to the next category) leaves no sub-fetch outstanding.
C18_SubFetchesJoined ==
    /\ [](\A r \in RunIds : runs[r].pending # {} => runs[r].pc = "fetch_all")
    /\ [][ \A r \in RunIds :
              (StepOf(r) /\ runs[r].pc = "fetch_all" /\ runs'[r].pc # "fetch_all") =>
                  runs'[r].pending = {} ]_vars

\* --------------------------------------------------------------------- C20
\* The merge of the sub-fetch results of the aggregate category, on its
\* own.  Articles with the same link differ in their publish date.
MergeDates == { 1, 2 }

MergedArticles == [link : Links, pubDate : MergeDates]

SubFetchResults == SeqsUpTo(MergedArticles, MaxSubFetchLen)

\* the value of the awaited Promise.all, App.tsx:82-84: the results of one
\* or two sub-fetches, in the order of otherCategoryValues
MergeInputs ==
    { << a >> : a \in SubFetchResults }
    \cup { << a, b >> : a \in SubFetchResults, b \in SubFetchResults }

InitMerge ==
    /\ NEWS_CATEGORIES = ConfiguredCategories
    /\ PageLoad
    /\ urlParams.action = "none"
    /\ StatusLogLeftOut
    /\ arg \in MergeInputs
    /\ ret = <<>>

\* articlesFromAllCategories and uniqueArticles, App.tsx:82-86
MergeSubFetches ==
    /\ ret = <<>>
    /\ ret' = << uniqueArticles(Flat(arg)) >>
    /\ UNCHANGED << arg, appVars >>

NextMerge == MergeSubFetches

SpecMerge == InitMerge /\ [][NextMerge]_vars

\* the positions at which a link occurs in a list of articles
PositionsOf(link, articles) ==
    { n \in 1..Len(articles) : articles[n].link = link }

Largest(S) == CHOOSE n \in S : \A m \in S : m <= n

\* C20: the merged list has exactly one entry per distinct link among all
\* sub-fetch results, and for a link that occurs several times the entry
\* kept is the last one seen in fetch-result order.
C20_MergeKeepsLastPerLink ==
    ret # <<>> =>
        LET seen   == Flat(arg)
            merged == ret[1]
        IN  /\ \A n \in 1..Len(seen) :
                  Cardinality(PositionsOf(seen[n].link, merged)) = 1
            /\ \A n \in 1..Len(merged) :
                  /\ PositionsOf(merged[n].link, seen) # {}
                  /\ merged[n] = seen[Largest(PositionsOf(merged[n].link, seen))]

\* a link was fetched twice, with different articles, and the lists are merged
C20_Witness ==
    /\ ret # <<>>
    /\ Len(arg) = 2
    /\ \E a \in 1..Len(arg[1]) : \E b \in 1..Len(arg[2]) :
          /\ arg[1][a].link = arg[2][b].link
          /\ arg[1][a] # arg[2][b]
    /\ Len(ret[1]) < Len(Flat(arg))

\* --------------------------------------------------------------------- C21
\* The candidate list of the aggregate category, with sub-fetch results
\* longer than the cut-off of the list.
TrendDates == { 1, 2 }

\* a long result of one sub-fetch: n articles with the links 1..n, each
\* with a publish date
LongFetchResults ==
    UNION { { [ k \in 1..n |-> [link |-> k, pubDate |-> d[k]] ] :
                d \in [1..n -> TrendDates] } : n \in 0..MaxMerged }

\* the aggregate category and one category for it to merge; the page is
\* loaded without a start request
InitTrending ==
    /\ NEWS_CATEGORIES = SubSeq(ConfiguredCategories, 1, 2)
    /\ PageLoad
    /\ NoFunctionCall
    /\ StatusLogLeftOut
    /\ urlParams.action = "none"

\* the steps of run r, the sub-fetch resolving with a long result
TrendingStep(r) ==
    \/ \E articles \in LongFetchResults : SubFetchReturn(r, 1, articles)
    \/ \E err \in FetchFailures : SubFetchFail(r, 1, err)
    \/ SequentialStep(r)

NextTrending ==
    \/ UrlEffect
    \/ \E value \in Passwords \cup { "" } : SetPassword(value)
    \/ PasswordSubmit
    \/ ClickStart
    \/ \E r \in RunIds : TrendingStep(r)

SpecTrending == InitTrending /\ [][NextTrending]_vars

\* every sub-fetch of the run has resolved
AllResolved(run) ==
    /\ run.fetched # <<>>
    /\ \A k \in 1..Len(run.fetched) : run.fetched[k] # <<>>

\* the merged set of the run: one article per link of the sub-fetch results
MergedSet(run) == uniqueArticles(Flat(resolvedValues(run.fetched)))

\* the task of the aggregate category
AggregateTask(ts) == ts[CHOOSE k \in 1..Len(ts) : ts[k].id = "top"]

\* the articles of the list, as a set
Range(articles) == { articles[n] : n \in 1..Len(articles) }

\* candidates is the list of the (at most) ten most recently published
\* articles of merged, newest first
TenMostRecent(candidates, merged) ==
    /\ Len(candidates) <= 10
    /\ Len(candidates) = Min(10, Len(merged))
    /\ Range(candidates) \subseteq Range(merged)
    /\ \A a \in 1..Len(candidates) : \A b \in 1..Len(candidates) :
          /\ a < b => candidates[a].pubDate >= candidates[b].pubDate
          /\ a # b => candidates[a].link # candidates[b].link
    /\ \A x \in Range(merged) \ Range(candidates) :
          \A c \in Range(candidates) : x.pubDate <= c.pubDate

\* C21: when the sub-fetches of the aggregate category have all resolved,
\* the candidate list handed on has at most 10 articles and consists of the
\* 10 most recently published articles of the merged set, newest first; and
\* when the merged set is empty the aggregate task is set to ERROR with
\* 'Could not construct "Trending" category.' and the analysis is not called.
C21_TrendingCandidates ==
    [][ \A r \in RunIds :
          ( /\ runs[r].pc = "fetch_all"
            /\ runs'[r].pc # "fetch_all"
            /\ AllResolved(runs'[r]) ) =>
              IF Len(MergedSet(runs'[r])) = 0
              THEN /\ runs'[r].pc = "p1_next"
                   /\ AggregateTask(tasks').status = ERROR
                   /\ AggregateTask(tasks').error = << NoTrendingMsg >>
              ELSE /\ runs'[r].pc = "analyze"
                   /\ TenMostRecent(runs'[r].unusedArticles, MergedSet(runs'[r])) ]_vars

\* eleven articles were merged and the last of them, published later than
\* another one, is among the ten candidates
C21_Witness ==
    \E r \in RunIds :
        /\ runs[r].pc = "analyze"
        /\ AllResolved(runs[r])
        /\ Len(MergedSet(runs[r])) = 11
        /\ Len(runs[r].unusedArticles) = 10
        /\ \E c \in Range(runs[r].unusedArticles) : c.link = 11
        /\ \E x \in Range(MergedSet(runs[r])) \ Range(runs[r].unusedArticles) :
              x.pubDate < 2

\* ----------------------------------------------------------------------
\* The status log.  The page is loaded without a start request that the URL
\* effect accepts, and the log is part of the state.
InitLog ==
    /\ NEWS_CATEGORIES \in CategoryConfigs
    /\ PageLoad
    /\ NoFunctionCall
    /\ urlParams.action = "none"
    /\ follows = {"logs"}

SpecLog == InitLog /\ [][NextButton]_vars

\* The mirrored sends of the log entries are part of the state as well.
InitMirror ==
    /\ NEWS_CATEGORIES \in CategoryConfigs
    /\ PageLoad
    /\ NoFunctionCall
    /\ urlParams.action = "none"
    /\ follows = {"logs", "mirror"}

MirrorOutcomes == { "ok", "not ok", "rejected" }

NextMirror ==
    \/ NextButton
    \/ \E outcome \in MirrorOutcomes : MirrorSettle(outcome)

SpecMirror == InitMirror /\ [][NextMirror]_vars

\* ----------------------------------------------------------------------
IsPrefix(s, t) ==
    /\ Len(s) <= Len(t)
    /\ SubSeq(t, 1, Len(s)) = s

StartedEntry  == Entry("INFO", StartedMsg, <<>>, <<>>)
Phase1Entry   == Entry("INFO", Phase1Msg, <<>>, <<>>)
FinishedEntry == Entry("SUCCESS", FinishedMsg, <<>>, <<>>)
AcceptedEntry == Entry("SUCCESS", AcceptedMsg, <<>>, <<>>)

\* C22: the log is append-only: every step leaves the log it found as a
\* prefix of the log, also the step that starts another batch, so that the
\* log of a state is a prefix of the log of every later state.  A log call
\* appends exactly one entry at the end: the step that starts a batch (two
\* calls) appends the batch-start entry and the Phase 1 entry, the step that
\* ends a batch (one call) the batch-end entry, and an accepted login (one
\* call) its entry, and nothing else.
C22_LogAppendOnly ==
    [][ /\ IsPrefix(logs, logs')
        /\ (~isProcessing /\ isProcessing')
              => logs' = logs \o << StartedEntry, Phase1Entry >>
        /\ (isProcessing /\ ~isProcessing')
              => logs' = Append(logs, FinishedEntry)
        /\ (~isAuthenticated /\ isAuthenticated')
              => logs' = Append(logs, AcceptedEntry) ]_vars

\* a second batch has ended, after a failed login and the accepted one
C22_Witness ==
    /\ Cardinality(EntriesWith(FinishedMsg)) = 2
    /\ Cardinality(EntriesWith(StartedMsg)) = 2
    /\ EntriesWith(FailedLoginMsg) # {}
    /\ EntriesWith(AcceptedMsg) # {}
    /\ ~isProcessing

\* ----------------------------------------------------------------------
\* the variables a mirrored send could reach
pipelineVars == << NEWS_CATEGORIES, urlParams, isAuthenticated, tasks,
                   isProcessing, completedCount, logs, hasTriggeredFromUrl,
                   isProcessingRef, password, effectPending, startTimer, runs >>

\* C23: the mirrored send of a log entry never affects the pipeline.  A step
\* in which a send settles, with whatever outcome, changes nothing but the
\* number of outstanding sends: task statuses, results, errors, the log
\* and the running flag are as before.  Every other step starts one send
\* for each entry it appends and settles none.  A batch in progress never
\* waits for a send: its next step can be taken however many sends are
\* outstanding, also when none of them ever completes.
C23_MirrorNeverAffectsPipeline ==
    /\ [][ /\ (mirror' < mirror)
                 => /\ mirror' = mirror - 1
                    /\ UNCHANGED pipelineVars
           /\ (mirror' >= mirror)
                 => mirror' - mirror = Len(logs') - Len(logs) ]_vars
    /\ [](\A r \in RunIds : Active(r) => ENABLED RunStep(r))

\* a batch in progress has completed a task while some of its sends have
\* settled and others are outstanding
C23_Witness ==
    /\ isProcessing
    /\ \E r \in RunIds : Active(r)
    /\ mirror > 0
    /\ mirror < Len(logs)
    /\ \E n \in 1..Len(tasks) : tasks[n].status = DONE

\* ----------------------------------------------------------------------
\* the messages of the failures that can leave the try block while a batch
\* waits at pc
FailuresAt(pc) ==
    CASE pc = "fetch"          -> { FetchFailMsg, UnknownErrorMsg, NoUnusedMsg }
      [] pc = "fetch_all"      -> { FetchFailMsg, UnknownErrorMsg, NoTrendingMsg,
                                    NoUnusedMsg }
      [] pc = "analyze"        -> { AnalyzeApiMsg, NoIdMsg, InvalidIdMsg,
                                    IrrelevantMsg }
      [] pc = "generate"       -> { GenerateFailMsg }
      [] pc = "load_generated" -> { CriticalMsg }
      [] pc = "compose"        -> { err.message : err \in ComposeFailures }
      [] pc = "upload"         -> { UploadFailMsg, UnknownErrorMsg }
      [] pc = "webhook"        -> { Webhook401Msg } \cup
                                  { WebhookFailMsg(response.status, response.text) :
                                      response \in WebhookResponses }
      [] OTHER                 -> { }

\* the message of the ERROR entry a catch block writes for the message
CatchMessage(pc, message) ==
    IF pc \in Phase1Pcs
    THEN << "Gathering failed: " >> \o message
    ELSE << "Processing failed: " >> \o message

\* the entries of the batch that was started last
EntriesOfBatch ==
    LET started == EntriesWith(StartedMsg)
    IN  IF started = { } THEN { } ELSE Largest(started)..Len(logs)

\* the ERROR entries of the batch that are tagged with the category
ErrorEntriesOf(categoryName) ==
    { n \in EntriesOfBatch : /\ logs[n].level = "ERROR"
                             /\ logs[n].category = << categoryName >> }

\* task k is in ERROR with an error message and one ERROR entry of its
\* category that contains the message, or it is not in ERROR and has neither
ErrorRecorded(k) ==
    LET entries == ErrorEntriesOf(tasks[k].categoryName)
    IN  IF tasks[k].status = ERROR
        THEN /\ tasks[k].error # <<>>
             /\ Cardinality(entries) = 1
             /\ \A n \in entries :
                   \E pc \in Phase1Pcs \cup Phase2Pcs :
                      logs[n].message = CatchMessage(pc, tasks[k].error[1])
        ELSE /\ tasks[k].error = <<>>
             /\ entries = { }

\* the step sets task k to ERROR
FailsTask(k) ==
    /\ k \in DOMAIN tasks
    /\ k \in DOMAIN tasks'
    /\ tasks[k].status # ERROR
    /\ tasks'[k].status = ERROR

PlaceOf(entry) ==
    IF entry.category = <<>> THEN 0
    ELSE CHOOSE k \in 1..N : NEWS_CATEGORIES[k].name = entry.category[1]

\* the entry that ends the gathering of a category or the processing of a
\* bundle
Closes(entry) == entry.category # <<>> /\ entry.level \in { "SUCCESS", "ERROR" }

GatheringFor(entry) ==
    /\ entry.level = "INFO"
    /\ entry.category # <<>>
    /\ entry.message = << "Gathering for: ", entry.category[1] >>

GatheringFinished(entry) ==
    /\ entry.level = "INFO"
    /\ entry.category = <<>>
    /\ entry.message[1] = "Gathering finished. Processing "

\* entry n of the log was written in Phase 1
InPhase1(n) ==
    \A m \in EntriesOfBatch : m <= n => ~GatheringFinished(logs[m])

\* the places of the categories the batch has gathered an article for
GatheredPlaces ==
    { PlaceOf(logs[m]) : m \in { n \in EntriesOfBatch :
                                   /\ logs[n].level = "SUCCESS"
                                   /\ logs[n].category # <<>>
                                   /\ InPhase1(n) } }

\* the entry begins the processing of the first bundle after place, or it
\* ends the batch when no bundle is left
NextBundleOrEnd(place, entry) ==
    LET left == { k \in GatheredPlaces : k > place }
    IN  IF left = { } THEN entry = FinishedEntry
        ELSE /\ PlaceOf(entry) \in left
             /\ \A k \in left : PlaceOf(entry) <= k

\* entry b may follow entry a = logs[n] in the log of a batch
MayFollow(n, a, b) ==
    IF a = StartedEntry THEN b = Phase1Entry
    ELSE IF a = Phase1Entry THEN GatheringFor(b) /\ PlaceOf(b) = 1
    ELSE IF a = FinishedEntry THEN FALSE
    ELSE IF GatheringFinished(a) THEN NextBundleOrEnd(0, b)
    ELSE IF a.category = <<>> THEN FALSE
    ELSE IF ~Closes(a) THEN b.category = a.category /\ ~GatheringFor(b)
    ELSE IF InPhase1(n)
         THEN IF PlaceOf(a) < N
              THEN GatheringFor(b) /\ PlaceOf(b) = PlaceOf(a) + 1
              ELSE GatheringFinished(b)
    ELSE NextBundleOrEnd(PlaceOf(a), b)

\* the entries of the batch are in the order of the loops
LogOrderOfBatch ==
    \A n \in EntriesOfBatch :
        n < Len(logs) => MayFollow(n, logs[n], logs[n + 1])

\* a step of Phase 2 that changes the status of a bundle's task appends an
\* entry with the task's category
StatusChangeLogged ==
    \A r \in RunIds : \A k \in DOMAIN tasks :
        ( /\ StepOf(r)
          /\ runs[r].pc \in Phase2Pcs
          /\ k \in DOMAIN tasks'
          /\ tasks'[k].status # tasks[k].status )
        => /\ Len(logs') > Len(logs)
           /\ logs'[Len(logs')].category = << tasks[k].categoryName >>

\* C25: the entries of a batch are ordered: the batch-start entry, the
\* Phase 1 entry, for each category in configured order its start entry, its
\* further entries and one closing SUCCESS or ERROR entry, the 'Gathering
\* finished' entry, for each bundle in gather order its entries and one
\* closing SUCCESS or ERROR entry, and the batch-end entry last; and every
\* change of the status of a bundle's task in Phase 2 has a log entry for
\* that step.
C25_LogOrderAndSteps ==
    /\ [] LogOrderOfBatch
    /\ [][StatusChangeLogged]_vars

\* the order of the entries alone
C25_LogOrder == [] LogOrderOfBatch

\* a second batch has ended; both have processed a bundle
C25_OrderWitness ==
    /\ Cardinality(EntriesWith(FinishedMsg)) = 2
    /\ Cardinality(EntriesWith(<< "Task completed successfully!" >>)) = 2

\* ----------------------------------------------------------------------
\* the article links the batch in progress has claimed, as its log tells
ClaimedInBatch ==
    { logs[n].details.source : n \in { m \in EntriesOfBatch :
                                         /\ logs[m].level = "SUCCESS"
                                         /\ logs[m].category # <<>>
                                         /\ InPhase1(m) } }

\* the article links batches before the last one have claimed
ClaimedBefore ==
    { logs[n].details.source : n \in { m \in 1..Len(logs) :
                                         /\ m \notin EntriesOfBatch
                                         /\ logs[m].level = "SUCCESS"
                                         /\ logs[m].category # <<>> } }

\* the task of a category as a batch starts with it
FreshTask(category) ==
    [ id |-> category.apiValue, categoryName |-> category.name,
      status |-> PENDING, result |-> <<>>, error |-> <<>> ]

\* C26: the step that starts a batch replaces the task collection by one
\* task per configured category, in PENDING with no result and no error,
\* sets the completed counter to 0 and begins with no used link; the used
\* links of a batch are the links it has claimed itself, so that a link
\* claimed in an earlier batch is eligible again.  Every other step keeps
\* the number of tasks and each task's id and categoryName.
C26_NewBatchStartsAfresh ==
    /\ [][ IF BatchStarts
           THEN /\ Len(tasks') = Len(NEWS_CATEGORIES)
                /\ \A k \in 1..Len(NEWS_CATEGORIES) :
                      tasks'[k] = FreshTask(NEWS_CATEGORIES[k])
                /\ completedCount' = 0
                /\ \A r \in RunIds :
                      (~Active(r) /\ Active(r)') => runs'[r].usedArticleLinks = { }
           ELSE /\ Len(tasks') = Len(tasks)
                /\ \A k \in DOMAIN tasks :
                      /\ tasks'[k].id = tasks[k].id
                      /\ tasks'[k].categoryName = tasks[k].categoryName ]_vars
    /\ [](\A r \in RunIds : Active(r) => runs[r].usedArticleLinks = ClaimedInBatch)

\* a second batch has claimed a link that the first batch had claimed; the
\* first batch had ended with both tasks in ERROR, one failed in Phase 2
C26_Witness ==
    /\ ClaimedInBatch \cap ClaimedBefore # { }
    /\ \E n \in 1..Len(logs) : /\ n \notin EntriesOfBatch
                                /\ logs[n].level = "ERROR"
                                /\ logs[n].message[1] = "Processing failed: "
    /\ \E r \in RunIds : Active(r)

\* ----------------------------------------------------------------------
\* the URL carries action=start and the configured password
UrlCarriesPassword ==
    /\ urlParams.action = "start"
    /\ urlParams.password = APP_PASSWORD

\* C27: a batch is started only after authentication.  The step that
\* starts a batch finds the authenticated flag set.  The flag is set only
\* by the form when the password submitted equals the configured password,
\* or by the URL effect when the URL carries action=start and the configured
\* password.  With a URL whose password is missing or wrong the URL effect
\* never authenticates and never schedules a start.
C27_StartOnlyAfterAuthentication ==
    /\ [][ /\ BatchStarts => isAuthenticated
           /\ (~isAuthenticated /\ isAuthenticated') =>
                 IF hasTriggeredFromUrl' # hasTriggeredFromUrl
                 THEN UrlCarriesPassword
                 ELSE password = APP_PASSWORD ]_vars
    /\ [](~UrlCarriesPassword => (~hasTriggeredFromUrl /\ ~startTimer))

\* the URL asked for a start with a wrong password; a batch runs after the
\* configured password has been submitted in the form
C27_Witness ==
    /\ urlParams.action = "start"
    /\ urlParams.password = "wrong"
    /\ isAuthenticated
    /\ isProcessing
    /\ ~hasTriggeredFromUrl

\* ----------------------------------------------------------------------
\* The calls of the analysis and of the workflow webhook.  The page is
\* loaded without a start request, and the last call of either is part of
\* the state.
InitCalls ==
    /\ NEWS_CATEGORIES \in CategoryConfigs
    /\ PageLoad
    /\ NoFunctionCall
    /\ urlParams.action = "none"
    /\ follows = {"calls"}

SpecCalls == InitCalls /\ [][NextButton]_vars

\* ----------------------------------------------------------------------
\* the last call that returned was a call of fn
LastCallOf(fn) == arg # <<>> /\ arg.fn = fn

\* the response names an article of the list by its 1-based id
IdInList(response, articles) ==
    /\ response.kind = "chosen"
    /\ response.id \in 1..Len(articles)

\* C28: the analysis returns null only when the service answers IRRELEVANT;
\* when it returns a pair, the article is the element at position
\* CHOSEN_ID - 1 of the list it was given (counted from 0), an element of
\* that list; it fails when CHOSEN_ID is missing or outside 1..length.  The
\* step in which the call returns null sets the category's task to ERROR
\* with 'AI deemed all articles irrelevant.'; the step in which it returns a
\* pair adds a bundle with that article, taken from the eligible list.
C28_AnalysisChoosesFromList ==
    /\ [](LastCallOf("findAndAnalyzeBestArticleFromList") =>
            /\ (ret[1].kind = "null") <=> (arg.response.kind = "IRRELEVANT")
            /\ ret[1].kind = "ok" =>
                  /\ IdInList(arg.response, arg.articles)
                  /\ ret[1].article = arg.articles[(arg.response.id - 1) + 1]
                  /\ ret[1].article \in Range(arg.articles)
            /\ ( \/ arg.response.kind = "no_id"
                 \/ ( /\ arg.response.kind = "chosen"
                      /\ ~IdInList(arg.response, arg.articles) ) )
                  => ret[1].kind = "throw")
    /\ [][ \A r \in RunIds :
             (StepOf(r) /\ runs[r].pc = "analyze") =>
                /\ arg'.fn = "findAndAnalyzeBestArticleFromList"
                /\ arg'.articles = runs[r].unusedArticles
                /\ LET task == tasks'[runs[r].i]
                   IN  IF ret'[1].kind = "null"
                       THEN /\ task.status = ERROR
                            /\ task.error = << IrrelevantMsg >>
                       ELSE IF ret'[1].kind = "ok"
                       THEN /\ task.status = GATHERED
                            /\ runs'[r].collectedData =
                                  Append(runs[r].collectedData,
                                         [taskId   |-> task.id,
                                          analysis |-> ret'[1].analysis,
                                          article  |-> ret'[1].article])
                            /\ ret'[1].article \in Range(runs[r].unusedArticles)
                       ELSE /\ task.status = ERROR
                            /\ task.error = << ret'[1].error.message >>
                            /\ task.error # << IrrelevantMsg >> ]_vars

\* the service has answered IRRELEVANT for the second category after the
\* first category had an article chosen, and the task is in ERROR
C28_Witness ==
    /\ LastCallOf("findAndAnalyzeBestArticleFromList")
    /\ arg.response.kind = "IRRELEVANT"
    /\ ret[1].kind = "null"
    /\ Len(tasks) >= 2
    /\ tasks[1].status = GATHERED
    /\ tasks[2].status = ERROR
    /\ tasks[2].error = << IrrelevantMsg >>

\* the service has chosen an id outside the list
C28_InvalidIdReached ==
    /\ LastCallOf("findAndAnalyzeBestArticleFromList")
    /\ arg.response.kind = "chosen"
    /\ arg.response.id = Len(arg.articles) + 1
    /\ ret[1].kind = "throw"

\* ----------------------------------------------------------------------
\* the message the claim gives for a response that is not a success
NonSuccessMessage(response) ==
    IF response.status = 401
    THEN << "Webhook request failed (401 Unauthorized)." >>
    ELSE << "Webhook request failed with status ", ToString(response.status),
            ": ", response.text >>

C29_UnauthorizedReached ==
    /\ LastCallOf("sendToMakeWebhook")
    /\ arg.response.status = 401
    /\ \E k \in DOMAIN tasks : tasks[k].error = << Webhook401Msg >>

\* ----------------------------------------------------------------------
\* The wrap function of the compositor, on its own.  A text is the sequence
\* of its characters: the space, a narrow and a wide character.
Chars == { " ", "a", "W" }

Texts == SeqsUpTo(Chars, MaxTextLen)

Budgets == 0..MaxBudget

\* context.measureText(text).width, canvas.ts:56: the widths of the
\* characters, added up
RECURSIVE measureText(_)
measureText(text) ==
    IF text = <<>> THEN 0
    ELSE (IF Head(text) = "W" THEN 2 ELSE 1) + measureText(Tail(text))

\* text.split(' '), canvas.ts:50: the pieces between the spaces, empty
\* pieces included
RECURSIVE split(_)
split(text) ==
    IF text = <<>> THEN << <<>> >>
    ELSE LET before == split(SubSeq(text, 1, Len(text) - 1))
             last   == text[Len(text)]
         IN  IF last = " "
             THEN Append(before, <<>>)
             ELSE [before EXCEPT ![Len(before)] = Append(@, last)]

\* variant of the loop: the line is ended after the word that overflows
RECURSIVE wrapWordsBreaksLate(_, _, _, _, _)
wrapWordsBreaksLate(words, n, lines, currentLine, maxWidth) ==
    IF n > Len(words) THEN Append(lines, currentLine)
    ELSE LET word     == words[n]
             testLine == IF Len(currentLine) > 0
                         THEN currentLine \o << " " >> \o word
                         ELSE word
         IN  IF measureText(testLine) > maxWidth /\ Len(currentLine) > 0
             THEN wrapWordsBreaksLate(words, n + 1, Append(lines, testLine),
                                      <<>>, maxWidth)
             ELSE wrapWordsBreaksLate(words, n + 1, lines, testLine, maxWidth)

\* variant: the line is ended after the word that overflows
calculateLinesBreaksLate(text, maxWidth) ==
    wrapWordsBreaksLate(split(text), 1, <<>>, <<>>, maxWidth)

\* the loop of calculateLines from word n on, canvas.ts:53-63
RECURSIVE wrapWords(_, _, _, _, _)
wrapWords(words, n, lines, currentLine, maxWidth) ==
    IF n > Len(words) THEN Append(lines, currentLine)
    ELSE LET word     == words[n]
             testLine == IF Len(currentLine) > 0
                         THEN currentLine \o << " " >> \o word
                         ELSE word
         IN  IF measureText(testLine) > maxWidth /\ Len(currentLine) > 0
             THEN wrapWords(words, n + 1, Append(lines, currentLine), word,
                            maxWidth)
             ELSE wrapWords(words, n + 1, lines, testLine, maxWidth)

\* variant: the line left over after the loop is not pushed
calculateLinesDropsLast(text, maxWidth) ==
    LET lines == wrapWords(split(text), 1, <<>>, <<>>, maxWidth)
    IN  SubSeq(lines, 1, Len(lines) - 1)

\* calculateLines, canvas.ts:44-65
calculateLines(text, maxWidth) ==
    wrapWords(split(text), 1, <<>>, <<>>, maxWidth)

InitWrap ==
    /\ NEWS_CATEGORIES = ConfiguredCategories
    /\ PageLoad
    /\ urlParams.action = "none"
    /\ StatusLogLeftOut
    /\ arg \in [text : Texts, maxWidth : Budgets]
    /\ ret = <<>>

\* lines = calculateLines(ctx, headline, maxWidth), canvas.ts:204
WrapText ==
    /\ ret = <<>>
    /\ ret' = << calculateLines(arg.text, arg.maxWidth) >>
    /\ UNCHANGED << arg, appVars >>

NextWrap == WrapText

SpecWrap == InitWrap /\ [][NextWrap]_vars

\* the line is one word of the text
SingleWord(line, text) ==
    /\ \A n \in 1..Len(line) : line[n] # " "
    /\ \E n \in 1..Len(split(text)) : split(text)[n] = line

\* C30: for every text and every width budget, each line that calculateLines
\* returns has a measured width of at most the budget, except a line that
\* consists of a single word which alone exceeds the budget.
C30_LinesWithinBudget ==
    ret # <<>> =>
        \A n \in 1..Len(ret[1]) :
            \/ measureText(ret[1][n]) <= arg.maxWidth
            \/ SingleWord(ret[1][n], arg.text)

\* a text is wrapped into a line of more than one word that fits the budget
\* and a line of a single word that exceeds it
C30_Witness ==
    /\ ret # <<>>
    /\ \E n \in 1..Len(ret[1]) :
          /\ measureText(ret[1][n]) > arg.maxWidth
          /\ SingleWord(ret[1][n], arg.text)
    /\ \E n \in 1..Len(ret[1]) :
          /\ measureText(ret[1][n]) <= arg.maxWidth
          /\ ~SingleWord(ret[1][n], arg.text)

\* ----------------------------------------------------------------------
\* the lines, joined by single spaces
RECURSIVE JoinedBySpaces(_)
JoinedBySpaces(lines) ==
    IF lines = <<>> THEN <<>>
    ELSE IF Len(lines) = 1 THEN lines[1]
    ELSE lines[1] \o << " " >> \o JoinedBySpaces(Tail(lines))

\* the text consists of non-empty words separated by single spaces
WordsSingleSpaced(text) ==
    /\ text # <<>>
    /\ \A n \in 1..Len(split(text)) : split(text)[n] # <<>>

\* C31: calculateLines always returns at least one line; for the empty text
\* it returns exactly one empty line; for a text of non-empty words separated
\* by single spaces, the returned lines joined by single spaces are the text,
\* so that every break is at a space of the text and nothing is lost.
C31_WrapLosesNothing ==
    ret # <<>> =>
        /\ Len(ret[1]) >= 1
        /\ arg.text = <<>> => ret[1] = << <<>> >>
        /\ WordsSingleSpaced(arg.text) => JoinedBySpaces(ret[1]) = arg.text

\* a text of three words has been broken into three lines
C31_Witness ==
    /\ ret # <<>>
    /\ WordsSingleSpaced(arg.text)
    /\ Len(split(arg.text)) = 3
    /\ Len(ret[1]) = 3

\* the empty text has been wrapped
C31_EmptyTextReached ==
    /\ ret # <<>>
    /\ arg.text = <<>>

\* ----------------------------------------------------------------------
\* The compositor, canvas.ts:132-263.  Its constants, in pixels:
size == 1080

imageTop == (size * 3) \div 10

\* const imageHeight = size * 0.7, canvas.ts:158
imageHeight == (size * 7) \div 10

textTopMargin == 60

textSideMargin == 60

maxTextHeight == imageTop - textTopMargin - 40

\* const maxWidth = size - textSideMargin * 2, canvas.ts:190
headlineMaxWidth == size - textSideMargin * 2

StartFontSize == 72

MinFontSize == 20

FontStep == 4

logoHeight == 150

margin == 40

\* ----------------------------------------------------------------------
\* The cover-fit of composeImage, canvas.ts:157-177, on its own.  The
\* quotients are kept exact: a number is a fraction << numerator,
\* denominator >> with a positive denominator.
Whole(n) == << n, 1 >>

RECURSIVE GCD(_, _)
GCD(m, n) == IF n = 0 THEN m ELSE GCD(n, m % n)

\* the fraction in lowest terms
Lowest(a) ==
    LET g == GCD(IF a[1] < 0 THEN 0 - a[1] ELSE a[1], a[2])
    IN  << a[1] \div g, a[2] \div g >>

Times(a, b) == Lowest(<< a[1] * b[1], a[2] * b[2] >>)

\* a / b for b > 0
Over(a, b) == Lowest(<< a[1] * b[2], a[2] * b[1] >>)

Minus(a, b) == Lowest(<< a[1] * b[2] - b[1] * a[2], a[2] * b[2] >>)

Plus(a, b) == Lowest(<< a[1] * b[2] + b[1] * a[2], a[2] * b[2] >>)

Half(a) == Lowest(<< a[1], 2 * a[2] >>)

AtMost(a, b) == a[1] * b[2] <= b[1] * a[2]

Same(a, b) == a[1] * b[2] = b[1] * a[2]

\* const canvasAspectRatio = size / imageHeight, canvas.ts:163
canvasAspectRatio == Over(Whole(size), Whole(imageHeight))

\* variant: the comparison of the aspect ratios is the other way round
coverFitCropsOtherAxis(width, height) ==
    LET imgAspectRatio == Over(Whole(width), Whole(height))
    IN  IF AtMost(imgAspectRatio, canvasAspectRatio)
        THEN LET sHeight == Whole(height)
                 sWidth  == Times(sHeight, canvasAspectRatio)
             IN  [sx |-> Half(Minus(Whole(width), sWidth)), sy |-> Whole(0),
                  sWidth |-> sWidth, sHeight |-> sHeight]
        ELSE LET sWidth  == Whole(width)
                 sHeight == Over(sWidth, canvasAspectRatio)
             IN  [sx |-> Whole(0), sy |-> Half(Minus(Whole(height), sHeight)),
                  sWidth |-> sWidth, sHeight |-> sHeight]

\* the source rectangle of ctx.drawImage(mainImage, sx, sy, sWidth, sHeight,
\* ...), canvas.ts:162-176
coverFit(width, height) ==
    LET imgAspectRatio == Over(Whole(width), Whole(height))
    IN  IF ~AtMost(imgAspectRatio, canvasAspectRatio)
        THEN LET sHeight == Whole(height)
                 sWidth  == Times(sHeight, canvasAspectRatio)
             IN  [sx |-> Half(Minus(Whole(width), sWidth)), sy |-> Whole(0),
                  sWidth |-> sWidth, sHeight |-> sHeight]
        ELSE LET sWidth  == Whole(width)
                 sHeight == Over(sWidth, canvasAspectRatio)
             IN  [sx |-> Whole(0), sy |-> Half(Minus(Whole(height), sHeight)),
                  sWidth |-> sWidth, sHeight |-> sHeight]

\* mainImage.width, mainImage.height of a loaded image
ImageSides == 1..MaxSide

InitCrop ==
    /\ NEWS_CATEGORIES = ConfiguredCategories
    /\ PageLoad
    /\ urlParams.action = "none"
    /\ StatusLogLeftOut
    /\ arg \in [width : ImageSides, height : ImageSides]
    /\ ret = <<>>

\* ctx.drawImage(mainImage, sx, sy, sWidth, sHeight, ...), canvas.ts:177
DrawMainImage ==
    /\ ret = <<>>
    /\ ret' = << coverFit(arg.width, arg.height) >>
    /\ UNCHANGED << arg, appVars >>

NextCrop == DrawMainImage

SpecCrop == InitCrop /\ [][NextCrop]_vars

\* the source is relatively wider than the band
WiderThanBand ==
    ~AtMost(Over(Whole(arg.width), Whole(arg.height)),
            Over(Whole(1080), Whole(756)))

\* C33: for every source image of positive width and height, the crop
\* rectangle has the aspect ratio 1080/756 of the band, lies inside the
\* source, spans the whole source on the axis that is not cropped and is
\* centered on the cropped one: a relatively wider source is cropped in its
\* width, any other source in its height.
C33_CoverFit ==
    ret # <<>> =>
        LET crop == ret[1]
            w    == Whole(arg.width)
            h    == Whole(arg.height)
        IN  /\ Same(Over(crop.sWidth, crop.sHeight),
                    Over(Whole(1080), Whole(756)))
            /\ AtMost(Whole(0), crop.sx)
            /\ AtMost(Whole(0), crop.sy)
            /\ AtMost(Plus(crop.sx, crop.sWidth), w)
            /\ AtMost(Plus(crop.sy, crop.sHeight), h)
            /\ ~AtMost(crop.sWidth, Whole(0))
            /\ ~AtMost(crop.sHeight, Whole(0))
            /\ IF WiderThanBand
               THEN /\ Same(crop.sy, Whole(0))
                    /\ Same(crop.sHeight, h)
                    /\ Same(crop.sx, Minus(w, Plus(crop.sx, crop.sWidth)))
               ELSE /\ Same(crop.sx, Whole(0))
                    /\ Same(crop.sWidth, w)
                    /\ Same(crop.sy, Minus(h, Plus(crop.sy, crop.sHeight)))

\* a relatively wider source has been cropped in its width
C33_Witness ==
    /\ ret # <<>>
    /\ WiderThanBand
    /\ ~AtMost(ret[1].sx, Whole(0))

\* a relatively taller source has been cropped in its height
C33_TallerReached ==
    /\ ret # <<>>
    /\ ~WiderThanBand
    /\ ~AtMost(ret[1].sy, Whole(0))

\* a source with the aspect ratio of the band is not cropped
C33_SameRatioReached ==
    /\ ret # <<>>
    /\ arg.width = 10
    /\ arg.height = 7
    /\ Same(ret[1].sHeight, Whole(7))

\* ----------------------------------------------------------------------
\* composeImage, canvas.ts:132-263, step by step.  Coordinates and lengths
\* on the canvas are in hundredths of a pixel.  Indices of strings count
\* from 0, as in the code.
Px(n) == n * 100

\* String.prototype.toLowerCase on the characters of the model
toLowerCase(text) ==
    [n \in 1..Len(text) |->
        IF text[n] = "W" THEN "w"
        ELSE IF text[n] = "D" THEN "d"
        ELSE text[n]]

\* text.substring(from, to) for 0 <= from <= to
substring(text, from, to) ==
    SubSeq(text, from + 1, IF to > Len(text) THEN Len(text) ELSE to)

\* the positions at or after fromIndex where search occurs in text
MatchesFrom(text, search, fromIndex) ==
    { k \in 0..Len(text) :
        /\ k >= fromIndex
        /\ k + Len(search) <= Len(text)
        /\ SubSeq(text, k + 1, k + Len(search)) = search }

\* text.indexOf(search, fromIndex) for fromIndex >= 0: the first such
\* position, -1 when there is none
indexOf(text, search, fromIndex) ==
    LET found == MatchesFrom(text, search, fromIndex)
    IN  IF found = {} THEN 0 - 1
        ELSE CHOOSE k \in found : \A m \in found : k <= m

\* The font that the browser draws with is known by the width of its
\* narrow character, in thousandths of the font size (measureText counts
\* in narrow characters).  In the first two sets a character of the model
\* stands for a run of characters of a headline.
SizingGlyphs == { 8000 }

WrapGlyphs == { 2500, 4000 }

\* the bold sans-serif fonts of the font stack: about 0.55 to 0.625 of the
\* font size per character of the headline of the scenario
ScenarioGlyphs == { 550, 625 }

\* context.measureText(text).width with ctx.font at fontSize
measuredWidth(text, fontSize) ==
    (measureText(text) * fontSize * arg.glyph) \div 10

\* maxWidth in narrow characters at fontSize: a line of m narrow characters
\* measures more than maxWidth exactly if m is more than this
maxWidthAt(fontSize) ==
    (headlineMaxWidth * 1000) \div (fontSize * arg.glyph)

\* lineHeight = fontSize * 1.2, canvas.ts:200
lineHeightAt(fontSize) == fontSize * 120

HeadlineWords == { << "a" >>, << "W", "W" >> }

RECURSIVE HeadlinesOf(_)
HeadlinesOf(n) ==
    IF n = 0 THEN { <<>> }
    ELSE IF n = 1 THEN HeadlineWords
    ELSE { h \o << " " >> \o w : h \in HeadlinesOf(n - 1), w \in HeadlineWords }

\* headlines of several lines
Headlines == UNION { HeadlinesOf(n) : n \in 0..MaxWords }

\* short headlines of all shapes
HighlightHeadlines == SeqsUpTo(Chars, MaxLineLen)

\* text.split(separator) for a separator of one character: the pieces
\* between the separators, empty pieces included
RECURSIVE splitBy(_, _)
splitBy(text, separator) ==
    IF text = <<>> THEN << <<>> >>
    ELSE LET before == splitBy(SubSeq(text, 1, Len(text) - 1), separator)
             last   == text[Len(text)]
         IN  IF last = separator
             THEN Append(before, <<>>)
             ELSE [before EXCEPT ![Len(before)] = Append(@, last)]

\* String.prototype.trim on the characters of the model
RECURSIVE trim(_)
trim(text) ==
    IF text = <<>> THEN <<>>
    ELSE IF Head(text) = " " THEN trim(Tail(text))
    ELSE IF text[Len(text)] = " " THEN trim(SubSeq(text, 1, Len(text) - 1))
    ELSE text

\* variant: the empty pieces are kept
highlightPhrasesOfKeepsEmpty(rest) ==
    LET pieces == splitBy(trim(rest), ",")
    IN  [n \in 1..Len(pieces) |-> trim(pieces[n])]

\* what parseAnalysisResponse makes of the rest of a HIGHLIGHT_WORDS: line,
\* part_002:102: .trim().split(',').map(w => w.trim()).filter(Boolean)
highlightPhrasesOf(rest) ==
    LET pieces  == splitBy(trim(rest), ",")
        trimmed == [n \in 1..Len(pieces) |-> trim(pieces[n])]
        Boolean(w) == w # <<>>
    IN  SelectSeq(trimmed, Boolean)

\* the rest of the HIGHLIGHT_WORDS: line of a response
HighlightWordsChars == { ",", " ", "a", "w" }

HighlightWordsLines == SeqsUpTo(HighlightWordsChars, MaxWordsLine)

\* the lines that give an analysis: the final validation of
\* parseAnalysisResponse, part_002:142, throws when the list of phrases is
\* empty
AcceptedWordsLines ==
    { rest \in HighlightWordsLines : highlightPhrasesOf(rest) # <<>> }

ScenarioHeadline ==
    << "D", "h", "a", "k", "a", " ", "f", "l", "o", "o", "d", "s", " ",
       "d", "i", "s", "p", "l", "a", "c", "e", " ",
       "t", "h", "o", "u", "s", "a", "n", "d", "s" >>

ScenarioPhrase ==
    << "f", "l", "o", "o", "d", "s", " ",
       "d", "i", "s", "p", "l", "a", "c", "e" >>

\* width and height of the loaded images
MainImages == { [width |-> 16, height |-> 9], [width |-> 3, height |-> 4] }

LogoImages == { [width |-> 2, height |-> 1] }

BRAND_TEXT == << "Dhaka Dispatch" >>

\* The calls of composeImage, App.tsx:152-159: the loaded image, the
\* headline and the highlight phrases of the analysis (highlightWords is the
\* line of the response that they were parsed from), and the font of the
\* browser
ComposeCalls(images, headlines, wordsLines, glyphs) ==
    { [mainImage |-> image, headline |-> headline, highlightWords |-> rest,
       highlightPhrases |-> highlightPhrasesOf(rest), glyph |-> glyph] :
      image \in images, headline \in headlines, rest \in wordsLines,
      glyph \in glyphs }

InitCompose ==
    /\ NEWS_CATEGORIES = ConfiguredCategories
    /\ PageLoad
    /\ urlParams.action = "none"
    /\ StatusLogLeftOut
    /\ \/ arg \in ComposeCalls(MainImages, Headlines, { << "a" >> },
                               SizingGlyphs)
       \/ arg \in ComposeCalls({ [width |-> 3, height |-> 4] },
                               HighlightHeadlines, AcceptedWordsLines,
                               WrapGlyphs)
       \/ arg \in ComposeCalls({ [width |-> 16, height |-> 9] },
                               { ScenarioHeadline }, { ScenarioPhrase },
                               ScenarioGlyphs)
    /\ ret = <<>>

\* canvas.getContext('2d') gives null, canvas.ts:144-148
ComposeNoContext ==
    /\ ret = <<>>
    /\ ret' = << [pc |-> "no_context", ops |-> <<>>, loads |-> <<>>,
                  error |-> << ComposeFailMsg >>, result |-> <<>>] >>
    /\ UNCHANGED << arg, appVars >>

\* Drawing steps 1 to 3, canvas.ts:150-182, and the variables of the
\* sizing, canvas.ts:186-194 (a variable not yet assigned is the empty
\* tuple, an assigned one the tuple of its value; font is the size that
\* ctx.font holds)
ComposeBegin ==
    /\ ret = <<>>
    /\ ret' = << [pc |-> "while",
                  ops |-> << [op |-> "fillRect", part |-> "background",
                              x |-> 0, y |-> 0, w |-> Px(size), h |-> Px(size)],
                             [op |-> "drawImage", part |-> "source",
                              crop |-> coverFit(arg.mainImage.width,
                                                arg.mainImage.height),
                              x |-> 0, y |-> Px(imageTop),
                              w |-> Px(size), h |-> Px(imageHeight)],
                             [op |-> "fillRect", part |-> "separator",
                              x |-> 0, y |-> Px(imageTop - 2),
                              w |-> Px(size), h |-> Px(5)] >>,
                  loads |-> <<>>, error |-> <<>>, result |-> <<>>,
                  fontSize |-> StartFontSize,
                  lineHeight |-> <<>>, lines |-> <<>>, font |-> <<>>,
                  line |-> 0, phrase |-> 0, searchFromIndex |-> 0,
                  currentY |-> 0] >>
    /\ UNCHANGED << arg, appVars >>

\* one pass of the body of while (fontSize > 20), canvas.ts:199-213
SizingIteration ==
    /\ ret # <<>>
    /\ ret[1].pc = "while"
    /\ ret[1].fontSize > MinFontSize
    /\ LET fontSize == ret[1].fontSize
           lines    == calculateLines(arg.headline, maxWidthAt(fontSize))
           fits     == Len(lines) * lineHeightAt(fontSize) <= Px(maxTextHeight)
       IN  ret' = << [ret[1] EXCEPT
                        !.lineHeight = << lineHeightAt(fontSize) >>,
                        !.font       = << fontSize >>,
                        !.lines      = << lines >>,
                        !.pc         = IF fits THEN "draw" ELSE "while",
                        !.fontSize   = IF fits THEN fontSize
                                       ELSE fontSize - FontStep] >>
    /\ UNCHANGED << arg, appVars >>

\* the condition of the while is false, canvas.ts:199
SizingExit ==
    /\ ret # <<>>
    /\ ret[1].pc = "while"
    /\ ret[1].fontSize <= MinFontSize
    /\ ret' = << [ret[1] EXCEPT !.pc = "draw"] >>
    /\ UNCHANGED << arg, appVars >>

\* the call drawHeadlineWithHighlights(ctx, lines!, highlightPhrases,
\* size / 2, textTopMargin, lineHeight!), canvas.ts:216-224, up to the first
\* line, canvas.ts:89-92
DrawHeadline ==
    /\ ret # <<>>
    /\ ret[1].pc = "draw"
    /\ ret' = << [ret[1] EXCEPT
                    !.pc = "scan",
                    !.line = 1, !.phrase = 1, !.searchFromIndex = 0,
                    !.currentY = Px(textTopMargin)] >>
    /\ UNCHANGED << arg, appVars >>

\* x of the call, canvas.ts:221
headlineX == Px(size \div 2)

\* lineHeight of the call, canvas.ts:223
headlineLineHeight == ret[1].lineHeight[1]

\* the line of the for loop of canvas.ts:92 and its startX, canvas.ts:93-94
lineText == ret[1].lines[1][ret[1].line]

startX == headlineX - measuredWidth(lineText, ret[1].font[1]) \div 2

\* the phrase of the for loop of canvas.ts:98
phraseOfLoop == arg.highlightPhrases[ret[1].phrase]

\* the value of startIndex in the condition of the while, canvas.ts:102
startIndexOfScan ==
    indexOf(toLowerCase(lineText), toLowerCase(phraseOfLoop),
            ret[1].searchFromIndex)

\* the rectangle of canvas.ts:103-112 for a match at startIndex (line and
\* phrase record the passes of the loops that the call is made in)
highlightRect(startIndex) ==
    LET beforeText    == substring(lineText, 0, startIndex)
        highlightText == substring(lineText, startIndex,
                                   startIndex + Len(phraseOfLoop))
        offsetX       == measuredWidth(beforeText, ret[1].font[1])
        phraseWidth   == measuredWidth(highlightText, ret[1].font[1])
        highlightHeight  == (headlineLineHeight * 45) \div 100
        highlightYOffset == (headlineLineHeight * 4) \div 10
    IN  [op |-> "fillRect", part |-> "highlight",
         x |-> startX + offsetX,
         y |-> ret[1].currentY + highlightYOffset,
         w |-> phraseWidth, h |-> highlightHeight,
         line |-> ret[1].line, phrase |-> ret[1].phrase]

\* variant: the search goes on after the end of the match
ScanFoundSkipsMatch ==
    /\ ret # <<>>
    /\ ret[1].pc = "scan"
    /\ ret[1].phrase <= Len(arg.highlightPhrases)
    /\ startIndexOfScan # 0 - 1
    /\ ret' = << [ret[1] EXCEPT
                    !.ops = Append(@, highlightRect(startIndexOfScan)),
                    !.searchFromIndex =
                        startIndexOfScan + Len(phraseOfLoop)] >>
    /\ UNCHANGED << arg, appVars >>

\* variant: the rectangle starts at the start of the line
ScanFoundNoOffset ==
    /\ ret # <<>>
    /\ ret[1].pc = "scan"
    /\ ret[1].phrase <= Len(arg.highlightPhrases)
    /\ startIndexOfScan # 0 - 1
    /\ ret' = << [ret[1] EXCEPT
                    !.ops = Append(@, [highlightRect(startIndexOfScan)
                                         EXCEPT !.x = startX]),
                    !.searchFromIndex = startIndexOfScan + 1] >>
    /\ UNCHANGED << arg, appVars >>

\* one pass of the while of canvas.ts:102-115: a match, its rectangle
ScanFound ==
    /\ ret # <<>>
    /\ ret[1].pc = "scan"
    /\ ret[1].phrase <= Len(arg.highlightPhrases)
    /\ startIndexOfScan # 0 - 1
    /\ ret' = << [ret[1] EXCEPT
                    !.ops = Append(@, highlightRect(startIndexOfScan)),
                    !.searchFromIndex = startIndexOfScan + 1] >>
    /\ UNCHANGED << arg, appVars >>

\* the condition of the while is false, canvas.ts:102: the next phrase
ScanNotFound ==
    /\ ret # <<>>
    /\ ret[1].pc = "scan"
    /\ ret[1].phrase <= Len(arg.highlightPhrases)
    /\ startIndexOfScan = 0 - 1
    /\ ret' = << [ret[1] EXCEPT !.phrase = @ + 1, !.searchFromIndex = 0] >>
    /\ UNCHANGED << arg, appVars >>

\* the text of the line at the state of the loops
lineGlyphs ==
    [op |-> "fillText", part |-> "glyphs", text |-> lineText,
     x |-> startX, y |-> ret[1].currentY,
     font |-> ret[1].font[1], line |-> ret[1].line]

\* variant: the text of the line is drawn before its rectangles
FillLineTextFirst ==
    /\ ret # <<>>
    /\ ret[1].pc = "scan"
    /\ ret[1].phrase > Len(arg.highlightPhrases)
    /\ LET own   == { i \in DOMAIN ret[1].ops :
                        /\ ret[1].ops[i].part = "highlight"
                        /\ ret[1].ops[i].line = ret[1].line }
           first == IF own = {} THEN Len(ret[1].ops) + 1
                    ELSE CHOOSE i \in own : \A j \in own : i <= j
       IN  ret' = << [ret[1] EXCEPT
                        !.ops = SubSeq(@, 1, first - 1) \o << lineGlyphs >>
                                   \o SubSeq(@, first, Len(@)),
                        !.currentY = @ + headlineLineHeight,
                        !.line = @ + 1,
                        !.phrase = 1,
                        !.searchFromIndex = 0,
                        !.loads = IF ret[1].line = Len(ret[1].lines[1])
                                  THEN Append(@, OVERLAY_IMAGE_URL) ELSE @,
                        !.pc = IF ret[1].line = Len(ret[1].lines[1])
                               THEN "overlay" ELSE "scan"] >>
    /\ UNCHANGED << arg, appVars >>

\* the phrases are through: the text of the line, canvas.ts:118-122, and the
\* next line; after the last line, loadImage(overlayUrl), canvas.ts:228
FillLineText ==
    /\ ret # <<>>
    /\ ret[1].pc = "scan"
    /\ ret[1].phrase > Len(arg.highlightPhrases)
    /\ LET last == ret[1].line = Len(ret[1].lines[1])
       IN  ret' = << [ret[1] EXCEPT
                        !.ops = Append(@, lineGlyphs),
                        !.currentY = @ + headlineLineHeight,
                        !.line = @ + 1,
                        !.phrase = 1,
                        !.searchFromIndex = 0,
                        !.loads = IF last THEN Append(@, OVERLAY_IMAGE_URL)
                                  ELSE @,
                        !.pc = IF last THEN "overlay" ELSE "scan"] >>
    /\ UNCHANGED << arg, appVars >>

\* loadImage(overlayUrl) resolves: drawing step 5, canvas.ts:228-229, and
\* loadImage(logoUrl), canvas.ts:233
DrawOverlay ==
    /\ ret # <<>>
    /\ ret[1].pc = "overlay"
    /\ ret' = << [ret[1] EXCEPT
                    !.ops = Append(@, [op |-> "drawImage", part |-> "overlay",
                                       x |-> 0, y |-> 0,
                                       w |-> Px(size), h |-> Px(size)]),
                    !.loads = Append(@, LOGO_URL),
                    !.pc = "logo"] >>
    /\ UNCHANGED << arg, appVars >>

\* loadImage(overlayUrl) rejects, canvas.ts:228
OverlayFail ==
    /\ ret # <<>>
    /\ ret[1].pc = "overlay"
    /\ ret' = << [ret[1] EXCEPT
                    !.error = << loadImageError(OVERLAY_IMAGE_URL) >>,
                    !.pc = "failed"] >>
    /\ UNCHANGED << arg, appVars >>

\* the logo and the brand text, canvas.ts:234-252
logoAndBrand(logoImage) ==
    << [op |-> "drawImage", part |-> "logo",
        x |-> Px(margin), y |-> Px(size - logoHeight - margin),
        w |-> (logoImage.width * Px(logoHeight)) \div logoImage.height,
        h |-> Px(logoHeight)],
       [op |-> "fillText", part |-> "brand", text |-> BRAND_TEXT,
        textAlign |-> "right", textBaseline |-> "bottom",
        x |-> Px(size - margin), y |-> Px(size - margin),
        font |-> "600 24px 'Inter', sans-serif"] >>

\* variant: the canvas is encoded before the logo and the brand text are
\* drawn
DrawLogoAndBrandAfterEncoding ==
    /\ ret # <<>>
    /\ ret[1].pc = "logo"
    /\ \E logoImage \in LogoImages :
          ret' = << [ret[1] EXCEPT
                       !.ops = @ \o logoAndBrand(logoImage),
                       !.font = << "600 24px 'Inter', sans-serif" >>,
                       !.result = << [type |-> "image/png",
                                      encoded |-> ret[1].ops] >>,
                       !.pc = "done"] >>
    /\ UNCHANGED << arg, appVars >>

\* loadImage(logoUrl) resolves: drawing steps 6 and 7 and
\* canvas.toDataURL('image/png'), canvas.ts:233-262 (encoded: what is on
\* the canvas when it is encoded)
DrawLogoAndBrand ==
    /\ ret # <<>>
    /\ ret[1].pc = "logo"
    /\ \E logoImage \in LogoImages :
          ret' = << [ret[1] EXCEPT
                       !.ops = @ \o logoAndBrand(logoImage),
                       !.font = << "600 24px 'Inter', sans-serif" >>,
                       !.result = << [type |-> "image/png",
                                      encoded |-> ret[1].ops
                                                    \o logoAndBrand(logoImage)] >>,
                       !.pc = "done"] >>
    /\ UNCHANGED << arg, appVars >>

\* loadImage(logoUrl) rejects, canvas.ts:233
LogoFail ==
    /\ ret # <<>>
    /\ ret[1].pc = "logo"
    /\ ret' = << [ret[1] EXCEPT
                    !.error = << loadImageError(LOGO_URL) >>,
                    !.pc = "failed"] >>
    /\ UNCHANGED << arg, appVars >>

NextCompose ==
    \/ ComposeNoContext
    \/ ComposeBegin
    \/ SizingIteration
    \/ SizingExit
    \/ DrawHeadline
    \/ ScanFound
    \/ ScanNotFound
    \/ FillLineText
    \/ DrawOverlay
    \/ OverlayFail
    \/ DrawLogoAndBrand
    \/ LogoFail

SpecCompose == InitCompose /\ [][NextCompose]_vars

\* ----------------------------------------------------------------------
\* the sizing loop has been entered
Sizing == ret # <<>> /\ ret[1].pc # "no_context"

\* the headline has been drawn to its last line
HeadlineDrawn ==
    ret # <<>> /\ ret[1].pc \in { "overlay", "logo", "done", "failed" }

\* the lines of the call of drawHeadlineWithHighlights
DrawnLines == ret[1].lines[1]

IsGlyphs(o) == o.part = "glyphs"

\* the fillText calls for the lines of the headline
GlyphOps == SelectSeq(ret[1].ops, IsGlyphs)

\* the sizes 72, 68, 64, ... down to the floor
FontSizes == { StartFontSize - k * FontStep :
                 k \in 0..((StartFontSize - MinFontSize) \div FontStep) }

\* the headline, wrapped at this size, is within the vertical budget
FitsAt(fontSize) ==
    Len(calculateLines(arg.headline, maxWidthAt(fontSize)))
        * (fontSize * 120) <= 22400

\* the headline is drawn as it wraps at this size, in the font of this size
\* and with 1.2 times this size from line to line
DrawnAt(fontSize) ==
    /\ [n \in DOMAIN GlyphOps |-> GlyphOps[n].text]
          = calculateLines(arg.headline, maxWidthAt(fontSize))
    /\ \A n \in DOMAIN GlyphOps :
          /\ GlyphOps[n].font = fontSize
          /\ GlyphOps[n].y = 6000 + (n - 1) * (fontSize * 120)
    /\ ret[1].lineHeight = << fontSize * 120 >>

\* the loop goes down the sizes and ends: each pass tries the current size
\* and either leaves the loop or reduces the size by 4, within 20..72
SizesTriedInSteps ==
    /\ [](Sizing => ret[1].fontSize \in FontSizes)
    /\ [][ (Sizing /\ ret[1].pc = "while") =>
              /\ ret'[1].font \in { ret[1].font, << ret[1].fontSize >> }
              /\ \/ ret'[1].pc = "draw"
                 \/ ret'[1].fontSize = ret[1].fontSize - FontStep ]_vars

\* the vertical budget is 224
BudgetIs224 == maxTextHeight = 224

\* C32 (as stated): the sizes 72, 68, 64, ... are tried in steps of 4 and the
\* loop ends; the headline is drawn at the largest size at which lines x
\* (1.2 x size) is at most 224, and when no size fits, with the lines, the
\* line height and the font of the floor size 20; in all cases the line
\* height drawn is 1.2 times the font size drawn and the lines are the wrap
\* at that size.
C32_SizingAsStated ==
    /\ SizesTriedInSteps
    /\ [](BudgetIs224)
    /\ [](HeadlineDrawn =>
            /\ \E f \in FontSizes : DrawnAt(f)
            /\ IF \E f \in FontSizes \ { MinFontSize } : FitsAt(f)
               THEN \E f \in FontSizes \ { MinFontSize } :
                       /\ FitsAt(f)
                       /\ DrawnAt(f)
                       /\ \A g \in FontSizes : g > f => ~FitsAt(g)
               ELSE DrawnAt(MinFontSize))

\* What the loop does: the last size tried is 24; when the headline fits at
\* no size from 72 down to 24 it is drawn as it wraps at 24, and the size 20
\* that fontSize then holds is used for nothing.
C32_DrawnAtLastSizeTried ==
    /\ SizesTriedInSteps
    /\ [](HeadlineDrawn =>
            /\ \E f \in FontSizes \ { MinFontSize } : DrawnAt(f)
            /\ IF \E f \in FontSizes \ { MinFontSize } : FitsAt(f)
               THEN \E f \in FontSizes \ { MinFontSize } :
                       /\ FitsAt(f)
                       /\ DrawnAt(f)
                       /\ \A g \in FontSizes : g > f => ~FitsAt(g)
               ELSE /\ DrawnAt(MinFontSize + FontStep)
                    /\ ret[1].fontSize = MinFontSize)

\* a headline that fits at no size from 72 down to 24 has been drawn
C32_NoSizeFitsReached ==
    /\ HeadlineDrawn
    /\ \A f \in FontSizes \ { MinFontSize } : ~FitsAt(f)

\* a headline has been drawn at a size between the largest and the smallest
C32_MiddleSizeReached ==
    /\ HeadlineDrawn
    /\ GlyphOps[1].font \in { 40, 44, 48 }
    /\ Len(DrawnLines) > 1

\* ----------------------------------------------------------------------
\* the rectangles drawn for a phrase in a line
RectsOf(n, p) ==
    { i \in DOMAIN ret[1].ops :
        /\ ret[1].ops[i].part = "highlight"
        /\ ret[1].ops[i].line = n
        /\ ret[1].ops[i].phrase = p }

\* the case-insensitive occurrences of a phrase in a line
Occurrences(line, phrase) ==
    { k \in 0..Len(line) :
        /\ k + Len(phrase) <= Len(line)
        /\ toLowerCase(SubSeq(line, k + 1, k + Len(phrase)))
              = toLowerCase(phrase) }

\* one rectangle per occurrence, for every line and phrase
OneRectPerOccurrence ==
    HeadlineDrawn =>
        \A n \in DOMAIN DrawnLines, p \in DOMAIN arg.highlightPhrases :
            Cardinality(RectsOf(n, p))
               = Cardinality(Occurrences(DrawnLines[n],
                                         arg.highlightPhrases[p]))

\* the highlight rectangles drawn, whatever the line and the phrase
AllRects == { i \in DOMAIN ret[1].ops : ret[1].ops[i].part = "highlight" }

\* the scenario of the headline 'Dhaka floods displace thousands'
ScenarioDrawn ==
    /\ HeadlineDrawn
    /\ arg.headline = ScenarioHeadline
    /\ arg.highlightPhrases = << ScenarioPhrase >>

\* C34: one rectangle per case-insensitive occurrence of each phrase in each
\* drawn line, overlapping occurrences included; none for a phrase that is in
\* no line; and for the headline 'Dhaka floods displace thousands' with the
\* phrase 'floods displace' exactly one rectangle, on the line that contains
\* the match.
C34_RectPerOccurrence ==
    /\ OneRectPerOccurrence
    /\ ScenarioDrawn =>
          /\ Cardinality(AllRects) = 1
          /\ \A i \in AllRects :
                Occurrences(DrawnLines[ret[1].ops[i].line],
                            ScenarioPhrase) # {}

\* two overlapping occurrences of a phrase in one line have their rectangles,
\* one of them matched across the case of the letters
C34_Witness ==
    /\ HeadlineDrawn
    /\ \E n \in DOMAIN DrawnLines, p \in DOMAIN arg.highlightPhrases :
          /\ Len(arg.highlightPhrases[p]) = 2
          /\ Cardinality(RectsOf(n, p)) = 2
          /\ \E k \in Occurrences(DrawnLines[n], arg.highlightPhrases[p]) :
                SubSeq(DrawnLines[n], k + 1, k + 2) # arg.highlightPhrases[p]

\* the scenario with the phrase on the first of two lines: one rectangle
C34_ScenarioOneLineReached ==
    /\ ScenarioDrawn
    /\ Cardinality(AllRects) = 1
    /\ Len(DrawnLines) = 2

\* a phrase of two words, split across two lines of the wrap, has no
\* rectangle
C34_SplitPhraseReached ==
    /\ HeadlineDrawn
    /\ arg.headline = << "a", " ", "W" >>
    /\ arg.highlightPhrases = << << "a", " ", "w" >> >>
    /\ Len(DrawnLines) = 2
    /\ AllRects = {}

\* ----------------------------------------------------------------------
\* the top of the height band of line n, and the height of a band
BandTop(n) == 6000 + (n - 1) * ret[1].lineHeight[1]

BandHeight == ret[1].lineHeight[1]

\* where line n starts: it is centered on the middle of the canvas
LineStart(n) ==
    54000 - measuredWidth(DrawnLines[n], GlyphOps[n].font) \div 2

\* the left edge and the width of the rectangles drawn for a phrase in a line
SpansDrawn(n, p) ==
    { << ret[1].ops[i].x, ret[1].ops[i].w >> : i \in RectsOf(n, p) }

\* the left edge and the width that the occurrences of a phrase in a line
\* call for: the line's start plus the width of the text before the match,
\* and the width of the matched text
SpansOfOccurrences(n, p) ==
    LET line   == DrawnLines[n]
        phrase == arg.highlightPhrases[p]
        font   == GlyphOps[n].font
    IN  { << LineStart(n) + measuredWidth(SubSeq(line, 1, k), font),
             measuredWidth(SubSeq(line, k + 1, k + Len(phrase)), font) >> :
          k \in Occurrences(line, phrase) }

RectsAlongTheText ==
    HeadlineDrawn =>
        \A n \in DOMAIN DrawnLines, p \in DOMAIN arg.highlightPhrases :
            SpansDrawn(n, p) = SpansOfOccurrences(n, p)

\* C35 (as stated): each rectangle starts at the line's start plus the
\* measured width of the text before the match, is as wide as the matched
\* text, and lies inside its line's height band, in the lower 45% of the
\* band.
C35_RectInLower45Percent ==
    /\ RectsAlongTheText
    /\ HeadlineDrawn =>
          \A i \in AllRects :
             LET rect == ret[1].ops[i]
             IN  /\ rect.y >= BandTop(rect.line) + (BandHeight * 55) \div 100
                 /\ rect.y + rect.h <= BandTop(rect.line) + BandHeight

\* C35 (amended): each rectangle starts at the line's start plus the
\* measured width of the text before the match and is as wide as the matched
\* text; it is 45% of the line height high and begins 40% of the line height
\* below the top of its line's band, so that it lies inside the band, from
\* 40% to 85% of it.
C35_RectGeometry ==
    /\ RectsAlongTheText
    /\ HeadlineDrawn =>
          \A i \in AllRects :
             LET rect == ret[1].ops[i]
             IN  /\ rect.h * 100 = BandHeight * 45
                 /\ (rect.y - BandTop(rect.line)) * 100 = BandHeight * 40
                 /\ rect.y >= BandTop(rect.line)
                 /\ rect.y + rect.h <= BandTop(rect.line) + BandHeight

\* a rectangle has been drawn in the second line, to the right of the
\* line's start
C35_Witness ==
    /\ HeadlineDrawn
    /\ \E i \in AllRects :
          /\ ret[1].ops[i].line = 2
          /\ ret[1].ops[i].x > LineStart(2)

\* ----------------------------------------------------------------------
\* C36 (as stated): a composition that fails because an image cannot be
\* loaded fails before any drawing operation, and the compositor loads no
\* image itself.
C36_FailsBeforeDrawing ==
    ret # <<>> =>
        /\ ret[1].error # <<>> => ret[1].ops = <<>>
        /\ ret[1].loads = <<>>

\* What the compositor does: it loads the overlay and the logo itself, each
\* after the headline has been drawn, and a failed load ends the composition
\* with the canvas drawn upon and no encoded image; only the failure to get
\* a context precedes the drawing.
C36_LoadsAfterDrawing ==
    ret # <<>> =>
        /\ ret[1].loads \in { <<>>, << OVERLAY_IMAGE_URL >>,
                              << OVERLAY_IMAGE_URL, LOGO_URL >> }
        /\ ret[1].loads # <<>> => HeadlineDrawn
        /\ ret[1].pc = "failed" =>
              /\ ret[1].ops # <<>>
              /\ ret[1].result = <<>>
              /\ ret[1].error = << LoadFailMsg >>
        /\ ret[1].pc = "no_context" => ret[1].ops = <<>>

\* the load of the logo has failed after the overlay was drawn
C36_LogoFailedAfterOverlayReached ==
    /\ ret # <<>>
    /\ ret[1].pc = "failed"
    /\ ret[1].loads = << OVERLAY_IMAGE_URL, LOGO_URL >>
    /\ ret[1].ops[Len(ret[1].ops)].part = "overlay"

\* ----------------------------------------------------------------------
\* the place of a drawing operation in the order of composeImage
PartRank(part) ==
    CASE part = "background" -> 1
      [] part = "source"     -> 2
      [] part = "separator"  -> 3
      [] part = "highlight"  -> 4
      [] part = "glyphs"     -> 4
      [] part = "overlay"    -> 5
      [] part = "logo"       -> 6
      [] part = "brand"      -> 7

\* the operations so far are in the order of the parts; those of the
\* headline go line by line, the text of a line after its rectangles; no
\* other part is drawn twice
InOrder(ops) ==
    \A i, j \in DOMAIN ops :
        i < j =>
           /\ PartRank(ops[i].part) <= PartRank(ops[j].part)
           /\ PartRank(ops[i].part) = PartRank(ops[j].part) =>
                 /\ PartRank(ops[i].part) = 4
                 /\ ops[i].line <= ops[j].line
                 /\ ops[i].line = ops[j].line => ops[i].part = "highlight"

\* every part has been drawn: the text of every line, the overlay over the
\* full canvas, the logo at the bottom left, the brand text at the bottom
\* right
Complete(ops) ==
    /\ \A part \in { "background", "source", "separator", "overlay",
                     "logo", "brand" } :
          \E i \in DOMAIN ops : ops[i].part = part
    /\ \A n \in DOMAIN DrawnLines :
          \E i \in DOMAIN ops :
             /\ ops[i].part = "glyphs"
             /\ ops[i].line = n
             /\ ops[i].text = DrawnLines[n]
    /\ \A i \in DOMAIN ops :
          /\ ops[i].part = "overlay" =>
                /\ ops[i].x = 0
                /\ ops[i].y = 0
                /\ ops[i].w = 108000
                /\ ops[i].h = 108000
          /\ ops[i].part = "logo" =>
                /\ ops[i].x = 4000
                /\ ops[i].y + ops[i].h = 108000 - 4000
          /\ ops[i].part = "brand" =>
                /\ ops[i].x = 108000 - 4000
                /\ ops[i].y = 108000 - 4000
                /\ ops[i].textAlign = "right"
                /\ ops[i].textBaseline = "bottom"

\* C37: composeImage draws in this order: background, cover-fitted source
\* image, separator, headline (for each line its highlight rectangles, then
\* its text), overlay over the full canvas, logo at the bottom left, brand
\* text at the bottom right; the image is encoded only after the brand text
\* has been drawn.
C37_DrawingOrder ==
    ret # <<>> =>
        /\ InOrder(ret[1].ops)
        /\ ret[1].result # <<>> =>
              /\ ret[1].pc = "done"
              /\ ret[1].result[1].encoded = ret[1].ops
              /\ Complete(ret[1].ops)
              /\ ret[1].ops[Len(ret[1].ops)].part = "brand"
        /\ ret[1].pc = "done" => ret[1].result # <<>>

\* an image has been encoded whose headline has two lines with a rectangle
\* each
C37_Witness ==
    /\ ret # <<>>
    /\ ret[1].result # <<>>
    /\ Len(DrawnLines) = 2
    /\ RectsOf(1, 1) # {}
    /\ RectsOf(2, 1) # {}

\* ----------------------------------------------------------------------
\* a scan is under way: the loops are at a line and a phrase
Scanning ==
    /\ ret # <<>>
    /\ ret[1].pc = "scan"
    /\ ret[1].phrase <= Len(arg.highlightPhrases)

\* C38: the parser never delivers an empty highlight phrase, and in the scan
\* of a line for a phrase the search start index strictly increases with each
\* match and stays within the line, so that the scan ends.
C38_ScanTerminates ==
    /\ [](/\ arg.highlightPhrases = highlightPhrasesOf(arg.highlightWords)
          /\ \A p \in DOMAIN arg.highlightPhrases :
                arg.highlightPhrases[p] # <<>>)
    /\ [](Scanning => ret[1].searchFromIndex <= Len(lineText))
    /\ [][ (Scanning /\ Len(ret'[1].ops) > Len(ret[1].ops)
               /\ ret'[1].line = ret[1].line) =>
              /\ ret'[1].searchFromIndex > ret[1].searchFromIndex
              /\ ret'[1].searchFromIndex = startIndexOfScan + 1
              /\ ret'[1].phrase = ret[1].phrase ]_vars
    /\ [][ (Scanning /\ ret'[1].phrase # ret[1].phrase) =>
              MatchesFrom(toLowerCase(lineText), toLowerCase(phraseOfLoop),
                          ret[1].searchFromIndex) = {} ]_vars

\* the response had an empty piece among its highlight words, and the scan
\* for a phrase goes on after its second match in a line
C38_Witness ==
    /\ Scanning
    /\ \E n \in 1..Len(splitBy(arg.highlightWords, ",")) :
          trim(splitBy(arg.highlightWords, ",")[n]) = <<>>
    /\ ret[1].searchFromIndex >= 2
    /\ Cardinality(RectsOf(ret[1].line, ret[1].phrase)) = 2

\* ----------------------------------------------------------------------
\* a sub-fetch of the aggregate category of run r rejects: the run leaves
\* the wait for the sub-fetches and no further result has come in
SubFetchFails(r) ==
    /\ StepOf(r)
    /\ runs[r].pc = "fetch_all"
    /\ runs'[r].pc # "fetch_all"
    /\ runs'[r].fetched = runs[r].fetched
    /\ \E k \in DOMAIN runs[r].fetched : runs[r].fetched[k] = <<>>

\* the messages of the failures of fetchLatestBangladeshiNews
SubFetchFailureMessages == { << errorMessage(err) >> : err \in FetchFailures }

\* the aggregate task is set to ERROR with the message of the failure, no
\* bundle is recorded, and the batch is at the head of the loop with the
\* next category
AggregateEndsInError(r) ==
    /\ tasks'[runs[r].i].id = "top"
    /\ tasks'[runs[r].i].status = ERROR
    /\ tasks'[runs[r].i].error \in SubFetchFailureMessages
    /\ runs'[r].collectedData = runs[r].collectedData
    /\ runs'[r].pc = "p1_next"
    /\ runs'[r].i = runs[r].i + 1

\* a bundle is recorded only by the step in which the analysis of the
\* category returns, under the id of that category
BundleOnlyAfterAnalysis(r) ==
    (StepOf(r) /\ Active(r)' /\ runs'[r].collectedData # runs[r].collectedData) =>
        /\ runs[r].pc = "analyze"
        /\ runs'[r].collectedData =
              Append(runs[r].collectedData,
                     runs'[r].collectedData[Len(runs'[r].collectedData)])
        /\ runs'[r].collectedData[Len(runs'[r].collectedData)].taskId =
              NEWS_CATEGORIES[runs[r].i].apiValue

\* a category other than the aggregate one is gathered with a fetch of its
\* own
OwnFetch(r) ==
    (StepOf(r) /\ runs[r].pc = "p1_next" /\ runs[r].i \in 2..Len(NEWS_CATEGORIES)) =>
        /\ runs'[r].pc = "fetch"
        /\ runs'[r].i = runs[r].i
        /\ runs'[r].fetched = <<>>

\* C39: when a sub-fetch of the aggregate category fails, the aggregate task
\* ends in ERROR with the message of that failure and no bundle is recorded
\* for it, whatever the other sub-fetches have returned; the batch goes on
\* to the remaining categories, each gathered with its own fetch.
C39_SubFetchFailure ==
    /\ [][ \A r \in RunIds : SubFetchFails(r) => AggregateEndsInError(r) ]_vars
    /\ [][ \A r \in RunIds : BundleOnlyAfterAnalysis(r) /\ OwnFetch(r) ]_vars
    /\ [](\A r \in RunIds :
             runs[r].pc \in Phase1Pcs =>
                 /\ \A n \in DOMAIN runs[r].collectedData :
                       \E k \in DOMAIN tasks :
                          /\ tasks[k].id = runs[r].collectedData[n].taskId
                          /\ tasks[k].status = GATHERED
                          /\ k < runs[r].i
                 /\ (runs[r].pc = "p1_next" /\ runs[r].i <= Len(NEWS_CATEGORIES)) =>
                       ENABLED GatherNext(r))

\* one sub-fetch had returned articles when another failed: the aggregate
\* task is in ERROR with no bundle, and the fetch of the last category is
\* awaited, the bundle of the category before it recorded
C39_Witness ==
    \E r \in RunIds :
        /\ runs[r].pc = "fetch"
        /\ runs[r].i = Len(NEWS_CATEGORIES)
        /\ runs[r].i >= 3
        /\ tasks[1].id = "top"
        /\ tasks[1].status = ERROR
        /\ tasks[1].error \in SubFetchFailureMessages
        /\ Len(runs[r].collectedData) = 1
        /\ runs[r].collectedData[1].taskId = NEWS_CATEGORIES[2].apiValue

\* a sub-fetch fails after another has returned articles
C39_FailsAfterArticlesReached ==
    \E r \in RunIds :
        /\ runs[r].pc = "p1_next"
        /\ runs[r].i = 2
        /\ tasks[1].status = ERROR
        /\ \E k \in DOMAIN runs[r].fetched :
              /\ runs[r].fetched[k] # <<>>
              /\ runs[r].fetched[k][1] # <<>>

\* ----------------------------------------------------------------------
\* the callback of the timer of the URL trigger runs
UrlTriggerStartsBatch == startTimer /\ ~startTimer'

\* C40: the URL trigger starts a batch at most once per page load: the
\* timer that starts the batch is set only by the step that records the
\* trigger, the record is never taken back, and once the timer has fired no
\* step sets it again: the step in which the running flag returns to false
\* neither sets the timer nor makes the effect run; every other batch is
\* started by a click on the enabled button.
C40_UrlTriggerOnce ==
    /\ [][ hasTriggeredFromUrl => hasTriggeredFromUrl' ]_vars
    /\ [][ (~startTimer /\ startTimer') =>
              (~hasTriggeredFromUrl /\ hasTriggeredFromUrl') ]_vars
    /\ [](startTimer => hasTriggeredFromUrl)
    /\ [][ UrlTriggerStartsBatch => BatchStarts ]_vars
    /\ [][ (BatchStarts /\ ~UrlTriggerStartsBatch) =>
              (isAuthenticated /\ ~isProcessing /\ UNCHANGED startTimer) ]_vars
    /\ [][ (isProcessing /\ ~isProcessing') =>
              UNCHANGED << effectPending, startTimer, hasTriggeredFromUrl >> ]_vars

\* the batch started by the URL trigger has finished: the running flag is
\* false again, the effect is not to run and no timer is outstanding
C40_Witness ==
    /\ hasTriggeredFromUrl
    /\ ~startTimer
    /\ ~effectPending
    /\ ~isProcessing
    /\ tasks # <<>>
    /\ \A r \in RunIds : ~Active(r)

====
